---- MODULE Spec2Model ----
(***************************************************************************)
(* State-machine model of the Valis AI backend core:                       *)
(*   - GlobalChatSystem      (backend/src/core/global_chat.py)             *)
(*   - AutonomousIntelligence (backend/src/core/autonomous_intelligence.py)*)
(*   - ChatModeManager       (backend/src/core/chat_modes.py)              *)
(* Python dicts are functions whose DOMAIN is the set of keys present,     *)
(* lists are sequences, uuid4() is a fresh value drawn from a counter and  *)
(* time.time() is the integer variable clock.                              *)
(***************************************************************************)
EXTENDS Integers, Sequences, FiniteSets, TLC

(***************************************************************************)
(* Bounds of the model (not program constants).                            *)
(***************************************************************************)
\* largest value of the clock
MaxClock == 120
\* number of messages a burst may add (SpecBurst)
MaxSends == 3
\* number of messages sent during one behaviour of SpecChat
MaxChatSends == 2
\* a burst start leaves this many free slots in the sender's rate window
BurstLeft == 2

(***************************************************************************)
(* Generic helpers for Python dicts and lists.                             *)
(***************************************************************************)
EmptyDict == [k \in {} |-> 0]

Put(d, k, v) == [x \in (DOMAIN d) \cup {k} |-> IF x = k THEN v ELSE d[x]]

Del(d, k) == [x \in (DOMAIN d) \ {k} |-> d[x]]

\* Python's s[-n:] for n > 0
LastN(s, n) == IF Len(s) > n THEN SubSeq(s, Len(s) - n + 1, Len(s)) ELSE s

Min(a, b) == IF a < b THEN a ELSE b

(***************************************************************************)
(* GlobalChatSystem                                                        *)
(***************************************************************************)
VARIABLES
    users,                  \* self.users: user_id -> ChatUser
    channel_message_count,  \* self.channels[c]['message_count']
    messages,               \* self.messages: channel_id -> list of ChatMessage
    active_connections,     \* self.active_connections: channel_id -> set of websockets
    user_connections,       \* self.user_connections: websocket -> user_id
    user_message_history,   \* self.user_message_history: user_id -> list of timestamps
    clock,                  \* time.time()
    next_id,                \* supply of uuid4() message ids
    chatResp,               \* the value returned by the last GlobalChatSystem call
    accepted,               \* history: per user, the times of every accepted send
    sent_log,               \* history: per channel, the ids of every message appended
    limited                 \* history: the users a send of whom was refused for the
                            \* message count of the rate limiter

chatVars == <<users, channel_message_count, messages, active_connections,
              user_connections, user_message_history, clock, next_id, chatResp,
              accepted, sent_log, limited>>

UserIds == {"u1", "u2"}

Handles == {"ws1", "ws2"}

Emojis == {"thumbsup", "heart"}

\* class UserRole
UserRole == {"guest", "user", "creator", "founder", "moderator", "admin"}

\* the bootstrap channels of _initialize_default_channels
channels ==
    [general       |-> [type |-> "public",     required_role |-> "none"],
     creators      |-> [type |-> "public",     required_role |-> "none"],
     founders      |-> [type |-> "restricted", required_role |-> "founder"],
     support       |-> [type |-> "public",     required_role |-> "none"],
     announcements |-> [type |-> "read_only",  required_role |-> "none"]]

ChannelIds == DOMAIN channels

max_messages_per_channel == 1000

\* self.rate_limits
rate_limits ==
    [guest     |-> [messages_per_minute |-> 5,    characters_per_message |-> 500],
     user      |-> [messages_per_minute |-> 10,   characters_per_message |-> 1000],
     creator   |-> [messages_per_minute |-> 20,   characters_per_message |-> 2000],
     founder   |-> [messages_per_minute |-> 50,   characters_per_message |-> 5000],
     moderator |-> [messages_per_minute |-> 100,  characters_per_message |-> 10000],
     admin     |-> [messages_per_minute |-> 1000, characters_per_message |-> 50000]]

\* the window of _check_rate_limit: timestamps with current_time - t < 60 are kept
RateWindow == 60

\* the slice [-50:] of join_channel
RecentLimit == 50

role_hierarchy == <<"guest", "user", "creator", "founder", "moderator", "admin">>

\* list.index
RoleIndex(role) == CHOOSE i \in 1..Len(role_hierarchy) : role_hierarchy[i] = role

has_role_or_higher(user_role, required_role) ==
    RoleIndex(user_role) >= RoleIndex(required_role)

\* channel.get('required_role', UserRole.USER)
RequiredRole(channel) ==
    IF channel.required_role = "none" THEN "user" ELSE channel.required_role

\* _can_user_send_message letting only ADMIN write to a read-only channel
can_user_send_message_admin_only(user, channel) ==
    IF channel.type = "read_only"
    THEN user.role \in {"admin"}
    ELSE IF channel.type = "restricted"
    THEN has_role_or_higher(user.role, RequiredRole(channel))
    ELSE TRUE

can_user_send_message(user, channel) ==
    IF channel.type = "read_only"
    THEN user.role \in {"moderator", "admin"}
    ELSE IF channel.type = "restricted"
    THEN has_role_or_higher(user.role, RequiredRole(channel))
    ELSE TRUE

\* _can_user_join_channel applying the rule for sending
can_user_join_channel_as_send(user, channel) ==
    can_user_send_message(user, channel)

can_user_join_channel(user, channel) ==
    IF channel.type = "restricted"
    THEN has_role_or_higher(user.role, RequiredRole(channel))
    ELSE TRUE

\* the list comprehension of _check_rate_limit
PruneHistory(history, current_time) ==
    SelectSeq(history, LAMBDA msg_time : current_time - msg_time < RateWindow)

\* _check_rate_limit with the count test off by one (> for >=)
check_rate_limit_gt(user_id, content) ==
    LET limits == rate_limits[users[user_id].role]
        pruned == PruneHistory(user_message_history[user_id], clock)
    IN  IF Len(pruned) > limits.messages_per_minute
        THEN [ok |-> FALSE, history |-> pruned, reason |-> "count"]
        ELSE IF content > limits.characters_per_message
        THEN [ok |-> FALSE, history |-> pruned, reason |-> "size"]
        ELSE [ok |-> TRUE, history |-> Append(pruned, clock), reason |-> "-"]

\* _check_rate_limit: the verdict and the history list it leaves behind.
\* content is the message body, modelled by its length len(content).
check_rate_limit(user_id, content) ==
    LET limits == rate_limits[users[user_id].role]
        pruned == PruneHistory(user_message_history[user_id], clock)
    IN  IF Len(pruned) >= limits.messages_per_minute
        THEN [ok |-> FALSE, history |-> pruned, reason |-> "count"]
        ELSE IF content > limits.characters_per_message
        THEN [ok |-> FALSE, history |-> pruned, reason |-> "size"]
        ELSE [ok |-> TRUE, history |-> Append(pruned, clock), reason |-> "-"]

\* the truncation keeping the oldest messages ([:max] for [-max:])
MaintainLimit_keep_oldest(msgs) ==
    IF Len(msgs) > max_messages_per_channel
    THEN SubSeq(msgs, 1, max_messages_per_channel)
    ELSE msgs

\* self.messages[channel_id][-self.max_messages_per_channel:] when over the limit
MaintainLimit(msgs) ==
    IF Len(msgs) > max_messages_per_channel
    THEN LastN(msgs, max_messages_per_channel)
    ELSE msgs

NewMessage(id, user_id, content, channel_id, timestamp) ==
    [message_id |-> id, user_id |-> user_id, content |-> content,
     channel_id |-> channel_id, timestamp |-> timestamp, reactions |-> EmptyDict]

\* the shape of chatResp; unused fields hold "-" or 0
Resp(op, user, channel, handle, message_id, result, recent) ==
    [op |-> op, user |-> user, channel |-> channel, handle |-> handle,
     message_id |-> message_id, result |-> result, recent |-> recent,
     content |-> 0]

\* a send_message result also records the length of the body it was called with
SendResp(user, channel, content, message_id, result) ==
    [op |-> "send", user |-> user, channel |-> channel, handle |-> "-",
     message_id |-> message_id, result |-> result, recent |-> <<>>,
     content |-> content]

\* _find_message: the (channel, index) slots holding message_id (ids are unique,
\* so the first match of the nested loops is the only one)
find_message(message_id) ==
    UNION {{<<c, i>> : i \in {j \in 1..Len(messages[c]) :
                                  messages[c][j].message_id = message_id}} :
           c \in ChannelIds}

\* register_user: a fresh ChatUser (status defaults to "online") replaces any
\* earlier one under the same id, and the rate history is reset to []
register_user(user_id, role) ==
    /\ users' = Put(users, user_id,
                    [role |-> role, status |-> "online", message_count |-> 0])
    /\ user_message_history' = Put(user_message_history, user_id, <<>>)
    /\ chatResp' = Resp("register", user_id, "-", "-", 0, "ok", <<>>)
    /\ UNCHANGED <<channel_message_count, messages, active_connections,
                   user_connections, clock, next_id, accepted, sent_log, limited>>

connect_user(user_id, websocket) ==
    IF user_id \notin DOMAIN users
    THEN /\ chatResp' = Resp("connect", user_id, "-", websocket, 0,
                             "User not registered", <<>>)
         /\ UNCHANGED <<users, channel_message_count, messages, active_connections,
                        user_connections, user_message_history, clock, next_id,
                        accepted, sent_log, limited>>
    ELSE /\ users' = [users EXCEPT ![user_id].status = "online"]
         /\ user_connections' = Put(user_connections, websocket, user_id)
         /\ active_connections' =
                [active_connections EXCEPT !["general"] = @ \cup {websocket}]
         /\ chatResp' = Resp("connect", user_id, "-", websocket, 0, "connected", <<>>)
         /\ UNCHANGED <<channel_message_count, messages, user_message_history,
                        clock, next_id, accepted, sent_log, limited>>

disconnect_user(websocket) ==
    IF websocket \notin DOMAIN user_connections
    THEN /\ chatResp' = Resp("disconnect", "-", "-", websocket, 0,
                             "Connection not found", <<>>)
         /\ UNCHANGED <<users, channel_message_count, messages, active_connections,
                        user_connections, user_message_history, clock, next_id,
                        accepted, sent_log, limited>>
    ELSE LET user_id == user_connections[websocket]
         IN  /\ users' = IF user_id \in DOMAIN users
                         THEN [users EXCEPT ![user_id].status = "offline"]
                         ELSE users
             /\ active_connections' =
                    [c \in ChannelIds |-> active_connections[c] \ {websocket}]
             /\ user_connections' = Del(user_connections, websocket)
             /\ chatResp' = Resp("disconnect", user_id, "-", websocket, 0,
                                 "disconnected", <<>>)
             /\ UNCHANGED <<channel_message_count, messages, user_message_history,
                            clock, next_id, accepted, sent_log, limited>>

\* a send_message that stamps the sender's window before it checks permission
send_message_stamps_denied(user_id, channel_id, content) ==
    IF user_id \notin DOMAIN users
    THEN /\ chatResp' = SendResp(user_id, channel_id, content, 0, "User not found")
         /\ UNCHANGED <<users, channel_message_count, messages, active_connections,
                        user_connections, user_message_history, clock, next_id,
                        accepted, sent_log, limited>>
    ELSE IF channel_id \notin ChannelIds
    THEN /\ chatResp' = SendResp(user_id, channel_id, content, 0, "Channel not found")
         /\ UNCHANGED <<users, channel_message_count, messages, active_connections,
                        user_connections, user_message_history, clock, next_id,
                        accepted, sent_log, limited>>
    ELSE IF ~can_user_send_message(users[user_id], channels[channel_id])
    THEN /\ chatResp' = SendResp(user_id, channel_id, content, 0, "Permission denied")
         /\ user_message_history' =
                [user_message_history EXCEPT ![user_id] = Append(@, clock)]
         /\ UNCHANGED <<users, channel_message_count, messages, active_connections,
                        user_connections, clock, next_id,
                        accepted, sent_log, limited>>
    ELSE LET rate == check_rate_limit(user_id, content)
         IN  IF ~rate.ok
             THEN /\ user_message_history' =
                        [user_message_history EXCEPT ![user_id] = rate.history]
                  /\ chatResp' = SendResp(user_id, channel_id, content, 0, "Rate limit exceeded")
                  /\ limited' = IF rate.reason = "count"
                                 THEN limited \cup {user_id}
                                 ELSE limited
                  /\ UNCHANGED <<users, channel_message_count, messages,
                                 active_connections, user_connections, clock,
                                 next_id, accepted, sent_log>>
             ELSE /\ user_message_history' =
                        [user_message_history EXCEPT ![user_id] = rate.history]
                  /\ messages' = [messages EXCEPT ![channel_id] =
                        MaintainLimit(Append(@,
                            NewMessage(next_id, user_id, content, channel_id, clock)))]
                  /\ users' = [users EXCEPT ![user_id].message_count = @ + 1]
                  /\ channel_message_count' =
                        [channel_message_count EXCEPT ![channel_id] = @ + 1]
                  /\ next_id' = next_id + 1
                  /\ accepted' = [accepted EXCEPT ![user_id] = Append(@, clock)]
                  /\ sent_log' = [sent_log EXCEPT ![channel_id] = Append(@, next_id)]
                  /\ chatResp' = SendResp(user_id, channel_id, content, next_id, "sent")
                  /\ UNCHANGED <<active_connections, user_connections, clock,
                                 limited>>

\* send_message; content is the body's length
send_message(user_id, channel_id, content) ==
    IF user_id \notin DOMAIN users
    THEN /\ chatResp' = SendResp(user_id, channel_id, content, 0, "User not found")
         /\ UNCHANGED <<users, channel_message_count, messages, active_connections,
                        user_connections, user_message_history, clock, next_id,
                        accepted, sent_log, limited>>
    ELSE IF channel_id \notin ChannelIds
    THEN /\ chatResp' = SendResp(user_id, channel_id, content, 0, "Channel not found")
         /\ UNCHANGED <<users, channel_message_count, messages, active_connections,
                        user_connections, user_message_history, clock, next_id,
                        accepted, sent_log, limited>>
    ELSE IF ~can_user_send_message(users[user_id], channels[channel_id])
    THEN /\ chatResp' = SendResp(user_id, channel_id, content, 0, "Permission denied")
         /\ UNCHANGED <<users, channel_message_count, messages, active_connections,
                        user_connections, user_message_history, clock, next_id,
                        accepted, sent_log, limited>>
    ELSE LET rate == check_rate_limit(user_id, content)
         IN  IF ~rate.ok
             THEN /\ user_message_history' =
                        [user_message_history EXCEPT ![user_id] = rate.history]
                  /\ chatResp' = SendResp(user_id, channel_id, content, 0, "Rate limit exceeded")
                  /\ limited' = IF rate.reason = "count"
                                 THEN limited \cup {user_id}
                                 ELSE limited
                  /\ UNCHANGED <<users, channel_message_count, messages,
                                 active_connections, user_connections, clock,
                                 next_id, accepted, sent_log>>
             ELSE /\ user_message_history' =
                        [user_message_history EXCEPT ![user_id] = rate.history]
                  /\ messages' = [messages EXCEPT ![channel_id] =
                        MaintainLimit(Append(@,
                            NewMessage(next_id, user_id, content, channel_id, clock)))]
                  /\ users' = [users EXCEPT ![user_id].message_count = @ + 1]
                  /\ channel_message_count' =
                        [channel_message_count EXCEPT ![channel_id] = @ + 1]
                  /\ next_id' = next_id + 1
                  /\ accepted' = [accepted EXCEPT ![user_id] = Append(@, clock)]
                  /\ sent_log' = [sent_log EXCEPT ![channel_id] = Append(@, next_id)]
                  /\ chatResp' = SendResp(user_id, channel_id, content, next_id, "sent")
                  /\ UNCHANGED <<active_connections, user_connections, clock,
                                 limited>>

\* join_channel; recent holds the message ids of recent_messages
join_channel(user_id, channel_id, websocket) ==
    IF user_id \notin DOMAIN users
    THEN /\ chatResp' = Resp("join", user_id, channel_id, websocket, 0,
                             "User not found", <<>>)
         /\ UNCHANGED <<users, channel_message_count, messages, active_connections,
                        user_connections, user_message_history, clock, next_id,
                        accepted, sent_log, limited>>
    ELSE IF channel_id \notin ChannelIds
    THEN /\ chatResp' = Resp("join", user_id, channel_id, websocket, 0,
                             "Channel not found", <<>>)
         /\ UNCHANGED <<users, channel_message_count, messages, active_connections,
                        user_connections, user_message_history, clock, next_id,
                        accepted, sent_log, limited>>
    ELSE IF ~can_user_join_channel(users[user_id], channels[channel_id])
    THEN /\ chatResp' = Resp("join", user_id, channel_id, websocket, 0,
                             "Permission denied", <<>>)
         /\ UNCHANGED <<users, channel_message_count, messages, active_connections,
                        user_connections, user_message_history, clock, next_id,
                        accepted, sent_log, limited>>
    ELSE /\ active_connections' =
                [active_connections EXCEPT ![channel_id] = @ \cup {websocket}]
         /\ chatResp' = Resp("join", user_id, channel_id, websocket, 0, "joined",
                [i \in 1..Len(LastN(messages[channel_id], RecentLimit)) |->
                    LastN(messages[channel_id], RecentLimit)[i].message_id])
         /\ UNCHANGED <<users, channel_message_count, messages, user_connections,
                        user_message_history, clock, next_id, accepted, sent_log, limited>>

leave_channel(user_id, channel_id, websocket) ==
    /\ active_connections' =
            IF channel_id \in DOMAIN active_connections
            THEN [active_connections EXCEPT ![channel_id] = @ \ {websocket}]
            ELSE active_connections
    /\ chatResp' = Resp("leave", user_id, channel_id, websocket, 0, "left", <<>>)
    /\ UNCHANGED <<users, channel_message_count, messages, user_connections,
                   user_message_history, clock, next_id, accepted, sent_log, limited>>

\* add_reaction without the membership test: the user is appended every time
AddReaction_always_append(reactions, user_id, emoji) ==
    LET withKey == IF emoji \notin DOMAIN reactions
                   THEN Put(reactions, emoji, <<>>)
                   ELSE reactions
    IN  [withKey EXCEPT ![emoji] = Append(@, user_id)]

\* the reactions dict of a message after add_reaction's two "if ... not in" steps
AddReaction(reactions, user_id, emoji) ==
    LET withKey == IF emoji \notin DOMAIN reactions
                   THEN Put(reactions, emoji, <<>>)
                   ELSE reactions
    IN  IF \E i \in 1..Len(withKey[emoji]) : withKey[emoji][i] = user_id
        THEN withKey
        ELSE [withKey EXCEPT ![emoji] = Append(@, user_id)]

add_reaction(user_id, message_id, emoji) ==
    IF find_message(message_id) = {}
    THEN /\ chatResp' = Resp("react", user_id, "-", emoji, message_id,
                             "Message not found", <<>>)
         /\ UNCHANGED <<users, channel_message_count, messages, active_connections,
                        user_connections, user_message_history, clock, next_id,
                        accepted, sent_log, limited>>
    ELSE LET slot == CHOOSE s \in find_message(message_id) : TRUE
         IN  /\ messages' = [messages EXCEPT ![slot[1]][slot[2]].reactions =
                                AddReaction(@, user_id, emoji)]
             /\ chatResp' = Resp("react", user_id, "-", emoji, message_id, "added", <<>>)
             /\ UNCHANGED <<users, channel_message_count, active_connections,
                            user_connections, user_message_history, clock,
                            next_id, accepted, sent_log, limited>>

\* the passage of time between two calls
TickSteps == {RateWindow - 1, RateWindow}

Tick ==
    /\ \E d \in TickSteps : clock + d <= MaxClock /\ clock' = clock + d
    /\ UNCHANGED <<users, channel_message_count, messages, active_connections,
                   user_connections, user_message_history, next_id, chatResp,
                   accepted, sent_log, limited>>

(***************************************************************************)
(* Initial states of the chat system.                                      *)
(***************************************************************************)
\* GlobalChatSystem.__init__
ChatConstructed ==
    /\ users = EmptyDict
    /\ channel_message_count = [c \in ChannelIds |-> 0]
    /\ messages = [c \in ChannelIds |-> <<>>]
    /\ active_connections = [c \in ChannelIds |-> {}]
    /\ user_connections = EmptyDict
    /\ user_message_history = EmptyDict
    /\ clock = 0
    /\ next_id = 1
    /\ chatResp = Resp("init", "-", "-", "-", 0, "-", <<>>)
    /\ accepted = [u \in UserIds |-> <<>>]
    /\ sent_log = [c \in ChannelIds |-> <<>>]
    /\ limited = {}

\* The state right after register_user(user_id, role) and then h accepted calls
\* send_message(user_id, channel_id, 1-character body), all at time 0.  The ids
\* of these h messages are the h numbers up to 0, in send order.
AfterBurst(user_id, role, channel_id, h) ==
    /\ users = Put(EmptyDict, user_id,
                   [role |-> role, status |-> "online", message_count |-> h])
    /\ channel_message_count = [c \in ChannelIds |-> IF c = channel_id THEN h ELSE 0]
    /\ messages = [c \in ChannelIds |->
            IF c = channel_id
            THEN [i \in 1..h |-> NewMessage(i - h, user_id, 1, channel_id, 0)]
            ELSE <<>>]
    /\ active_connections = [c \in ChannelIds |-> {}]
    /\ user_connections = EmptyDict
    /\ user_message_history = Put(EmptyDict, user_id, [i \in 1..h |-> 0])
    /\ clock = 0
    /\ next_id = 1
    /\ chatResp = IF h = 0
                  THEN Resp("register", user_id, "-", "-", 0, "ok", <<>>)
                  ELSE SendResp(user_id, channel_id, 1, 0, "sent")
    /\ accepted = [u \in UserIds |-> IF u = user_id THEN [i \in 1..h |-> 0] ELSE <<>>]
    /\ sent_log = [c \in ChannelIds |->
            IF c = channel_id THEN [i \in 1..h |-> i - h] ELSE <<>>]
    /\ limited = {}

(***************************************************************************)
(* AutonomousIntelligence: the task registry behind /autonomous.           *)
(* The Flask development server of main.py serves every request in a       *)
(* thread of its own, so execute_task calls can overlap: a call is a       *)
(* sequence of steps of one of the Threads, and it is inside the executor  *)
(* while it waits for the completion service.                              *)
(***************************************************************************)
VARIABLES
    active_tasks,   \* self.active_tasks: task_id -> Task
    next_task,      \* supply of uuid4() task ids
    exec,           \* per thread: where its execute_task call stands
    runs,           \* history: per task id, how often an executor was dispatched
    taskResp        \* the value returned by the last AutonomousIntelligence call

taskVars == <<active_tasks, next_task, exec, runs, taskResp>>

\* number of tasks created during one behaviour
MaxTasks == 1
\* number of execute_task calls that find their task, per task
MaxRuns == 2

Threads == {"th1", "th2"}

\* class TaskType
TaskType == {"website_creation", "presentation", "image_generation",
             "video_creation", "api_development", "full_stack_app",
             "data_analysis", "automation", "general_chat"}

\* class ExecutionStatus
ExecutionStatus == {"planning", "executing", "testing", "deploying",
                    "completed", "error"}

\* step plans the intent classifier may return (step names are abstract)
StepPlans == {<<>>, <<"step1">>, <<"step1", "step2", "step3">>}

\* What json.loads(...) of the classifier's answer may be: an object with the
\* fields create_task reads (complete), whose task_type may be no TaskType
\* value, or an object that lacks one of them.
ClassifierAnswers ==
    {[task_type |-> t, steps |-> p, complete |-> TRUE] :
        t \in {"website_creation", "image_generation", "automation", "no_such_type"},
        p \in StepPlans}
    \cup {[task_type |-> "website_creation", steps |-> <<"step1">>, complete |-> FALSE]}

\* the "Fallback analysis" of analyze_intent
FallbackAnalysis ==
    [task_type |-> "general_chat", steps |-> <<"Process request", "Generate response">>,
     complete |-> TRUE]

\* What the call of the classifier inside analyze_intent may do: raise (the
\* completion call or json.loads fails) or return one of answers
ClassifierOutcomes(answers) ==
    {[raises |-> TRUE, answer |-> FallbackAnalysis]}
    \cup {[raises |-> FALSE, answer |-> a] : a \in answers}

\* analyze_intent: the parsed answer, or the fallback when anything raised
analyze_intent(outcome) ==
    IF outcome.raises THEN FallbackAnalysis ELSE outcome.answer

\* TaskType(analysis["task_type"]), analysis["description"], analysis["steps"]
\* raise ValueError / KeyError
CreateRaises(analysis) ==
    ~analysis.complete \/ analysis.task_type \notin TaskType

\* a Task created as already EXECUTING
NewTask_executing(analysis) ==
    [type |-> analysis.task_type,
     status |-> "executing",
     progress |-> 0,
     steps |-> analysis.steps,
     current_step |-> 0,
     results |-> [k \in {"analysis", "user_input"} |-> k]]

\* the Task built by create_task
NewTask(analysis) ==
    [type |-> analysis.task_type,
     status |-> "planning",
     progress |-> 0,
     steps |-> analysis.steps,
     current_step |-> 0,
     results |-> [k \in {"analysis", "user_input"} |-> k]]

\* get_task_status on a registry (a dict of tasks)
get_task_status(tasks, task_id) ==
    IF task_id \notin DOMAIN tasks
    THEN [error |-> "Task not found"]
    ELSE LET task == tasks[task_id]
         IN  [task_id |-> task_id,
              type |-> task.type,
              status |-> task.status,
              progress |-> task.progress,
              current_step |-> task.current_step,
              total_steps |-> Len(task.steps),
              step_name |-> IF task.current_step < Len(task.steps)
                            THEN task.steps[task.current_step + 1]
                            ELSE "Completed",
              results |-> task.results]

\* the HTTP status of POST /autonomous/execute/<task_id> for the dict
\* execute_task returned: 500 when the dict has the key 'error'
execute_autonomous_task(result) ==
    IF result \in {"error", "Task not found"} THEN 500 ELSE 200

\* the HTTP status of POST /autonomous/chat: 500 when create_task raised
autonomous_chat(result) ==
    IF result = "raised" THEN 500 ELSE 200

\* the shape of taskResp; unused fields hold "-" or 0; http is the status the
\* route answers with
TaskResp(op, thread, task_id, result, status, progress) ==
    [op |-> op, thread |-> thread, task_id |-> task_id, result |-> result,
     status |-> status, progress |-> progress,
     http |-> IF op = "execute" THEN execute_autonomous_task(result)
              ELSE IF op = "create" THEN autonomous_chat(result)
              ELSE 0,
     \* for create_task: what the classifier did ("raises", "unusable", "usable")
     classifier |-> "-"]

\* what the classifier did in a create_task call
ClassifierBehaviour(outcome) ==
    IF outcome.raises THEN "raises"
    ELSE IF CreateRaises(outcome.answer) THEN "unusable"
    ELSE "usable"

Idle == [pc |-> "idle", task_id |-> 0]

\* create_task; outcome is the classifier's behaviour
create_task(outcome) ==
    LET analysis == analyze_intent(outcome)
    IN  /\ next_task <= MaxTasks
        /\ IF CreateRaises(analysis)
           THEN /\ taskResp' = [TaskResp("create", "-", 0, "raised", "-", 0)
                                EXCEPT !.classifier = ClassifierBehaviour(outcome)]
                /\ UNCHANGED <<active_tasks, next_task, exec, runs>>
           ELSE /\ active_tasks' = Put(active_tasks, next_task, NewTask(analysis))
                /\ next_task' = next_task + 1
                /\ runs' = Put(runs, next_task, 0)
                /\ taskResp' = [TaskResp("create", "-", next_task, "ok", "-", 0)
                                EXCEPT !.classifier = ClassifierBehaviour(outcome)]
                /\ UNCHANGED exec

\* the executor execute_task dispatches to
Executor(type) ==
    CASE type = "website_creation" -> "website"
      [] type = "presentation"     -> "presentation"
      [] type = "image_generation" -> "image"
      [] type = "api_development"  -> "api"
      [] type = "full_stack_app"   -> "fullstack"
      [] OTHER                     -> "general"

\* the results keys an executor other than the website one writes on success
SuccessKeys(executor) ==
    CASE executor = "presentation" -> {"presentation_content", "status"}
      [] executor = "image"        -> {"image_url", "status"}
      [] executor = "api"          -> {"api_code", "status", "api_url"}
      [] executor = "fullstack"    -> {"application_code", "status", "frontend_url",
                                       "backend_url"}
      [] OTHER                     -> {"response", "status"}

\* task.results[k] = ... for every k of keys
Store(results, keys) ==
    [k \in (DOMAIN results) \cup keys |-> IF k \in keys THEN k ELSE results[k]]

\* execute_task up to the executor's call of the completion service
execute_task(thread, task_id) ==
    /\ exec[thread].pc = "idle"
    /\ IF task_id \notin DOMAIN active_tasks
       THEN /\ taskResp' = TaskResp("execute", thread, task_id, "Task not found", "-", 0)
            /\ UNCHANGED <<active_tasks, next_task, exec, runs>>
       ELSE /\ runs[task_id] < MaxRuns
            /\ active_tasks' = [active_tasks EXCEPT ![task_id].status = "executing"]
            /\ exec' = [exec EXCEPT ![thread] = [pc |-> "call", task_id |-> task_id]]
            /\ runs' = [runs EXCEPT ![task_id] = @ + 1]
            /\ UNCHANGED <<next_task, taskResp>>

\* an "except" handler that starts the results over with the error alone
ExecutorFails_drops_results(thread) ==
    LET task_id == exec[thread].task_id
    IN  /\ active_tasks' = [active_tasks EXCEPT
                ![task_id].status = "error",
                ![task_id].results = [k \in {"error"} |-> k]]
        /\ exec' = [exec EXCEPT ![thread] = Idle]
        /\ taskResp' = TaskResp("execute", thread, task_id, "error", "-", 0)
        /\ UNCHANGED <<next_task, runs>>

\* the "except Exception" handler shared by all executors
ExecutorFails(thread) ==
    LET task_id == exec[thread].task_id
    IN  /\ active_tasks' = [active_tasks EXCEPT
                ![task_id].status = "error",
                ![task_id].results = Store(@, {"error"})]
        /\ exec' = [exec EXCEPT ![thread] = Idle]
        /\ taskResp' = TaskResp("execute", thread, task_id, "error", "-", 0)
        /\ UNCHANGED <<next_task, runs>>

\* the completion call of an executor raises
executor_call_raises(thread) ==
    /\ exec[thread].pc = "call"
    /\ ExecutorFails(thread)

\* The completion call returned something the executor cannot read
\* (response.choices[0].message.content or response['data'][0]['url'] raises):
\* the assignments before that read have been made, the handler runs next.
executor_response_unusable(thread) ==
    LET task_id == exec[thread].task_id
        website == Executor(active_tasks[task_id].type) = "website"
    IN  /\ exec[thread].pc = "call"
        /\ active_tasks' = [active_tasks EXCEPT
                ![task_id].progress = IF website THEN 50 ELSE 100,
                ![task_id].current_step = IF website THEN 2 ELSE @,
                ![task_id].status = IF website THEN "testing" ELSE "completed"]
        /\ exec' = [exec EXCEPT ![thread].pc = "except"]
        /\ UNCHANGED <<next_task, runs, taskResp>>

\* the "except Exception" handler after such a read
executor_except(thread) ==
    /\ exec[thread].pc = "except"
    /\ ExecutorFails(thread)

\* _execute_website_creation after the completion call returned: lines 213-220
execute_website_creation(thread) ==
    LET task_id == exec[thread].task_id
    IN  /\ exec[thread].pc = "call"
        /\ Executor(active_tasks[task_id].type) = "website"
        /\ active_tasks' = [active_tasks EXCEPT
                ![task_id].progress = 50,
                ![task_id].current_step = 2,
                ![task_id].status = "testing",
                ![task_id].results = Store(@, {"generated_content", "status"})]
        /\ exec' = [exec EXCEPT ![thread].pc = "deploy"]
        /\ UNCHANGED <<next_task, runs, taskResp>>

\* _execute_website_creation, "Simulate deployment" and return: lines 222-233
website_deployment(thread) ==
    LET task_id == exec[thread].task_id
    IN  /\ exec[thread].pc = "deploy"
        /\ active_tasks' = [active_tasks EXCEPT
                ![task_id].progress = 100,
                ![task_id].status = "completed",
                ![task_id].results = Store(@, {"deployment_url"})]
        /\ exec' = [exec EXCEPT ![thread] = Idle]
        /\ taskResp' = TaskResp("execute", thread, task_id, "success", "completed", 100)
        /\ UNCHANGED <<next_task, runs>>

\* the other five executors after the completion call returned
execute_other(thread) ==
    LET task_id == exec[thread].task_id
        executor == Executor(active_tasks[task_id].type)
    IN  /\ exec[thread].pc = "call"
        /\ executor # "website"
        /\ active_tasks' = [active_tasks EXCEPT
                ![task_id].progress = 100,
                ![task_id].status = "completed",
                ![task_id].results = Store(@, SuccessKeys(executor))]
        /\ exec' = [exec EXCEPT ![thread] = Idle]
        /\ taskResp' = TaskResp("execute", thread, task_id, "success", "completed", 100)
        /\ UNCHANGED <<next_task, runs>>

\* AutonomousIntelligence.__init__, no request in progress
TaskConstructed ==
    /\ active_tasks = EmptyDict
    /\ next_task = 1
    /\ exec = [t \in Threads |-> Idle]
    /\ runs = EmptyDict
    /\ taskResp = TaskResp("init", "-", 0, "-", "-", 0)

(***************************************************************************)
(* ChatModeManager, with the CodeActEngine workspaces and the manager's    *)
(* own AutonomousIntelligence registry.  A message is the sequence of its  *)
(* characters.                                                             *)
(***************************************************************************)
VARIABLES
    active_sessions,  \* self.active_sessions: session_id -> session dict
    next_session,     \* supply of uuid4() session ids
    codeact_sessions, \* CodeActEngine.sessions: the workspace ids in use
    next_workspace,   \* supply of uuid4() workspace ids
    mode_tasks,       \* self.autonomous_ai.active_tasks
    next_mode_task,   \* supply of uuid4() task ids of that registry
    modeResp          \* the value returned by the last ChatModeManager call

modeVars == <<active_sessions, next_session, codeact_sessions, next_workspace,
              mode_tasks, next_mode_task, modeResp>>

\* number of sessions created during one behaviour
MaxSessions == 1
\* number of messages processed during one behaviour
MaxMessages == 1

\* class ChatMode
ChatMode == {"adaptive", "agent", "chat", "custom"}

\* max_iterations of execute_task_autonomously
max_iterations == 3

agent_keywords ==
    {<<"c", "r", "e", "a", "t", "e">>,
     <<"b", "u", "i", "l", "d">>,
     <<"m", "a", "k", "e">>,
     <<"d", "e", "v", "e", "l", "o", "p">>,
     <<"c", "o", "d", "e">>,
     <<"p", "r", "o", "g", "r", "a", "m">>,
     <<"d", "e", "p", "l", "o", "y">>,
     <<"w", "e", "b", "s", "i", "t", "e">>,
     <<"a", "p", "p">>,
     <<"a", "p", "p", "l", "i", "c", "a", "t", "i", "o", "n">>,
     <<"a", "p", "i">>,
     <<"d", "a", "t", "a", "b", "a", "s", "e">>,
     <<"s", "c", "r", "i", "p", "t">>,
     <<"a", "u", "t", "o", "m", "a", "t", "e">>,
     <<"g", "e", "n", "e", "r", "a", "t", "e">>,
     <<"i", "m", "p", "l", "e", "m", "e", "n", "t">>,
     <<"e", "x", "e", "c", "u", "t", "e">>,
     <<"r", "u", "n">>}

chat_keywords ==
    {<<"w", "h", "a", "t">>,
     <<"h", "o", "w">>,
     <<"w", "h", "y">>,
     <<"e", "x", "p", "l", "a", "i", "n">>,
     <<"t", "e", "l", "l", " ", "m", "e">>,
     <<"d", "e", "s", "c", "r", "i", "b", "e">>,
     <<"h", "e", "l", "p">>,
     <<"q", "u", "e", "s", "t", "i", "o", "n">>,
     <<"u", "n", "d", "e", "r", "s", "t", "a", "n", "d">>,
     <<"l", "e", "a", "r", "n">>,
     <<"k", "n", "o", "w">>,
     <<"t", "h", "i", "n", "k">>,
     <<"o", "p", "i", "n", "i", "o", "n">>}

\* "build me a website"
MsgBuildWebsite ==
    <<"b", "u", "i", "l", "d", " ", "m", "e", " ", "a", " ", "w", "e", "b", "s", "i", "t", "e">>

\* "Build an APP and deploy it"
MsgBuildDeployApp ==
    <<"B", "u", "i", "l", "d", " ", "a", "n", " ", "A", "P", "P", " ", "a", "n", "d", " ", "d", "e", "p", "l", "o", "y", " ", "i", "t">>

\* "what is an api"
MsgWhatIsApi ==
    <<"w", "h", "a", "t", " ", "i", "s", " ", "a", "n", " ", "a", "p", "i">>

\* "explain how and why"
MsgExplain ==
    <<"e", "x", "p", "l", "a", "i", "n", " ", "h", "o", "w", " ", "a", "n", "d", " ", "w", "h", "y">>

Messages == {MsgBuildWebsite, MsgBuildDeployApp, MsgWhatIsApi, MsgExplain}

UpperCase == <<"A", "B", "C", "D", "E", "F", "G", "H", "I", "J", "K", "L", "M",
               "N", "O", "P", "Q", "R", "S", "T", "U", "V", "W", "X", "Y", "Z">>

LowerCase == <<"a", "b", "c", "d", "e", "f", "g", "h", "i", "j", "k", "l", "m",
               "n", "o", "p", "q", "r", "s", "t", "u", "v", "w", "x", "y", "z">>

\* str.lower()
Lower(message) ==
    [i \in 1..Len(message) |->
        IF \E k \in 1..Len(UpperCase) : UpperCase[k] = message[i]
        THEN LowerCase[CHOOSE k \in 1..Len(UpperCase) : UpperCase[k] = message[i]]
        ELSE message[i]]

\* keyword in message_lower
Contains(message, keyword) ==
    \E i \in 0..(Len(message) - Len(keyword)) :
        \A j \in 1..Len(keyword) : message[i + j] = keyword[j]

\* sum(1 for keyword in keywords if keyword in message_lower)
Score(keywords, message_lower) ==
    Cardinality({keyword \in keywords : Contains(message_lower, keyword)})

\* min(0.8, 0.5 + score * 0.1) in tenths; in IEEE doubles 0.5 + 2 * 0.1 is the
\* double 0.7 and 0.5 + 1 * 0.1 the double 0.6, so the comparison with 0.7 agrees
FallbackConfidence(score) == Min(8, 5 + score)

\* the "Fallback analysis" of _analyze_message_intent
KeywordAnalysis(message) ==
    LET message_lower == Lower(message)
        agent_score == Score(agent_keywords, message_lower)
        chat_score == Score(chat_keywords, message_lower)
    IN  IF agent_score > chat_score
        THEN [recommended_mode |-> "agent",
              confidence |-> FallbackConfidence(agent_score), complete |-> TRUE]
        ELSE [recommended_mode |-> "chat",
              confidence |-> FallbackConfidence(chat_score), complete |-> TRUE]

\* What json.loads(...) of the intent classifier's answer may be: confidence is
\* in tenths; complete is FALSE when a field _process_adaptive_mode reads is
\* missing; recommended_mode may be no ChatMode value.
IntentAnswers ==
    {[recommended_mode |-> m, confidence |-> c, complete |-> TRUE] :
        m \in {"agent", "chat", "code"}, c \in {7, 8}}
    \cup {[recommended_mode |-> "agent", confidence |-> 9, complete |-> FALSE]}

IntentOutcomes ==
    {[raises |-> TRUE, answer |-> [recommended_mode |-> "chat", confidence |-> 5,
                                   complete |-> TRUE]]}
    \cup {[raises |-> FALSE, answer |-> a] : a \in IntentAnswers}

\* the fallback analysis of every message of Messages
FallbackAnalyses == [message \in Messages |-> KeywordAnalysis(message)]

\* _analyze_message_intent
analyze_message_intent(message, outcome) ==
    IF outcome.raises THEN FallbackAnalyses[message] ELSE outcome.answer

\* the threshold test against 0.8 for 0.7
HighConfidence_gt8(confidence) == confidence > 8

\* the threshold test with >= for >
HighConfidence_ge(confidence) == confidence >= 7

\* the threshold test of _process_adaptive_mode, confidence in tenths
HighConfidence(confidence) == confidence > 7

\* execute_task_autonomously: outcomes[i] is how execute_code ends in iteration i:
\* "success", "error" (an exception with a message) or "error_empty" (an
\* exception whose str() is empty, so result['error'] is '').
\* The loop stops after the first iteration i with outcomes[i] = "success".
Iterations(outcomes) ==
    IF \E i \in 1..max_iterations : outcomes[i] = "success"
    THEN CHOOSE i \in 1..max_iterations :
            /\ outcomes[i] = "success"
            /\ \A j \in 1..(i - 1) : outcomes[j] # "success"
    ELSE max_iterations

execute_task_autonomously(outcomes) ==
    LET n == Iterations(outcomes)
    IN  [iterations |-> n,
         final_success |-> outcomes[n] = "success",
         \* iterations after which the error text was appended to the description
         appended |-> {i \in 1..n : outcomes[i] = "error" /\ i < max_iterations}]

\* the runs of the loop that are told apart by where it stops and by what it
\* appends: the iterations after the first success never happen
ExecutionOutcomes ==
    {[i \in 1..max_iterations |-> "success"],
     [i \in 1..max_iterations |-> IF i = 1 THEN "error_empty" ELSE "success"],
     [i \in 1..max_iterations |-> IF i < max_iterations THEN "error" ELSE "success"],
     [i \in 1..max_iterations |-> "error"]}

\* no execution loop was run
NoExecution ==
    [ran |-> FALSE, outcomes |-> <<>>, iterations |-> 0, final_success |-> FALSE,
     appended |-> {}]

\* the shape of modeResp; unused fields hold "-" or 0
ModeResp(given_id, session_id, result, mode, message, analysis, switched, clarification, task_id) ==
    [op |-> "process_message", given_id |-> given_id, session_id |-> session_id,
     result |-> result, mode |-> mode, message |-> message,
     recommended_mode |-> analysis.recommended_mode,
     confidence |-> analysis.confidence,
     complete |-> analysis.complete,
     mode_switched |-> switched, clarification_needed |-> clarification,
     task_id |-> task_id,
     \* the request of a process_message call: the message, the mode argument
     \* and whether the intent call raised
     text |-> <<>>, override |-> "none", fallback |-> FALSE,
     \* the execution_summary of an agent response, with the outcomes the
     \* iterations of the loop had
     execution |-> NoExecution]

NoAnalysis == [recommended_mode |-> "-", confidence |-> 0, complete |-> TRUE]

\* create_chat_session
NewSession(mode) ==
    [mode |-> mode, message_count |-> 0, context |-> <<>>, workspace_id |-> 0,
     task_history |-> <<>>]

create_chat_session(mode) ==
    /\ next_session <= MaxSessions
    /\ active_sessions' = Put(active_sessions, next_session, NewSession(mode))
    /\ next_session' = next_session + 1
    /\ modeResp' = [ModeResp(0, next_session, "ok", mode, "-", NoAnalysis, FALSE,
                             FALSE, 0) EXCEPT !.op = "create_chat_session"]
    /\ UNCHANGED <<codeact_sessions, next_workspace, mode_tasks, next_mode_task>>

\* _process_chat_mode on session sess; completion is "ok" or "raise" (then
\* _generate_chat_response returns its fixed apology)
process_chat_mode(sess, completion) ==
    [session |-> [sess EXCEPT !.context =
                        Append(@, [role |-> "assistant", mode |-> "chat"])],
     raised |-> FALSE,
     mode |-> "chat",
     message |-> IF completion = "ok" THEN "reply" ELSE "apology",
     workspace |-> FALSE,
     task |-> FALSE,
     execution |-> NoExecution]

\* _process_agent_mode on session sess; classifier is the behaviour of the
\* intent classifier inside create_task, outcomes that of the execution loop
process_agent_mode(sess, classifier, outcomes) ==
    LET workspace_id == IF sess.workspace_id = 0 THEN next_workspace
                        ELSE sess.workspace_id
        withWorkspace == [sess EXCEPT !.workspace_id = workspace_id]
        analysis == analyze_intent(classifier)
        execution_result == execute_task_autonomously(outcomes)
    IN  IF CreateRaises(analysis)
        THEN [session |-> withWorkspace, raised |-> TRUE, mode |-> "agent",
              message |-> "-", workspace |-> TRUE, task |-> FALSE,
              execution |-> NoExecution]
        ELSE [session |-> [withWorkspace EXCEPT
                    !.context = Append(@, [role |-> "assistant", mode |-> "agent"]),
                    !.task_history = Append(@,
                        [task_id |-> next_mode_task,
                         final_success |-> execution_result.final_success])],
              raised |-> FALSE,
              mode |-> "agent",
              message |-> IF execution_result.final_success
                          THEN "success" ELSE "failure",
              workspace |-> TRUE,
              task |-> TRUE,
              execution |-> [ran |-> TRUE, outcomes |-> outcomes,
                             iterations |-> execution_result.iterations,
                             final_success |-> execution_result.final_success,
                             appended |-> execution_result.appended]]

\* _process_adaptive_mode: the dispatch result, with the adaptive_analysis fields
process_adaptive_mode(sess, message, intent, classifier, completion, outcomes) ==
    LET analysis == analyze_message_intent(message, intent)
        unhandled == [session |-> sess, raised |-> TRUE, mode |-> "adaptive",
                      message |-> "-", workspace |-> FALSE, task |-> FALSE,
                      execution |-> NoExecution]
        switched == [sess EXCEPT !.mode = analysis.recommended_mode]
        info(result, mode_switched) ==
            [result |-> result, analysis |-> analysis,
             switched |-> mode_switched /\ ~result.raised,
             clarification |-> ~mode_switched /\ ~result.raised]
    IN  IF ~analysis.complete
        THEN info(unhandled, FALSE)
        ELSE IF HighConfidence(analysis.confidence)
        THEN IF analysis.recommended_mode \notin ChatMode
             THEN info(unhandled, FALSE)
             ELSE IF analysis.recommended_mode = "agent"
             THEN info(process_agent_mode(switched, classifier, outcomes), TRUE)
             ELSE info(process_chat_mode(switched, completion), TRUE)
        ELSE info(process_chat_mode(sess, completion), FALSE)

\* the dispatch of process_message on current_mode
Dispatch(sess, message, intent, classifier, completion, outcomes) ==
    IF sess.mode = "adaptive"
    THEN process_adaptive_mode(sess, message, intent, classifier, completion, outcomes)
    ELSE [result |-> IF sess.mode = "agent"
                     THEN process_agent_mode(sess, classifier, outcomes)
                     ELSE process_chat_mode(sess, completion),
          analysis |-> NoAnalysis, switched |-> FALSE, clarification |-> FALSE]

\* the messages the sessions of ids have processed
RECURSIVE MessagesProcessed(_)
MessagesProcessed(ids) ==
    IF ids = {} THEN 0
    ELSE LET id == CHOOSE x \in ids : TRUE
         IN  active_sessions[id].message_count + MessagesProcessed(ids \ {id})

\* a process_message that opens the new session under the id the caller gave
process_message_keeps_id(given_id, message, mode, intent, classifier, completion, outcomes) ==
    LET known == given_id \in DOMAIN active_sessions
        session_id == given_id
        session == IF known THEN active_sessions[given_id]
                   ELSE NewSession(IF mode = "none" THEN "adaptive" ELSE mode)
        current_mode == IF mode # "none" THEN mode ELSE session.mode
        entered == [session EXCEPT
                        !.message_count = @ + 1,
                        !.mode = current_mode,
                        !.context = Append(@, [role |-> "user", mode |-> current_mode])]
        done == Dispatch(entered, message, intent, classifier, completion, outcomes)
    IN  /\ MessagesProcessed(DOMAIN active_sessions) < MaxMessages
        /\ known \/ next_session <= MaxSessions
        /\ active_sessions' = Put(active_sessions, session_id, done.result.session)
        /\ next_session' = IF known THEN next_session ELSE next_session + 1
        /\ codeact_sessions' = IF done.result.workspace
                               THEN codeact_sessions
                                    \cup {done.result.session.workspace_id}
                               ELSE codeact_sessions
        /\ next_workspace' = IF done.result.workspace /\ entered.workspace_id = 0
                             THEN next_workspace + 1
                             ELSE next_workspace
        /\ mode_tasks' = IF done.result.task
                         THEN Put(mode_tasks, next_mode_task,
                                  NewTask(analyze_intent(classifier)))
                         ELSE mode_tasks
        /\ next_mode_task' = IF done.result.task THEN next_mode_task + 1
                             ELSE next_mode_task
        /\ modeResp' = [ModeResp(given_id, session_id,
                                 IF done.result.raised THEN "raised" ELSE "ok",
                                 done.result.mode, done.result.message, done.analysis,
                                 done.switched, done.clarification,
                                 IF done.result.task THEN next_mode_task ELSE 0)
                        EXCEPT !.text = message, !.override = mode,
                               !.fallback = intent.raises,
                               !.execution = done.result.execution]

\* process_message; mode is the caller's override or "none"
process_message(given_id, message, mode, intent, classifier, completion, outcomes) ==
    LET known == given_id \in DOMAIN active_sessions
        session_id == IF known THEN given_id ELSE next_session
        session == IF known THEN active_sessions[given_id]
                   ELSE NewSession(IF mode = "none" THEN "adaptive" ELSE mode)
        current_mode == IF mode # "none" THEN mode ELSE session.mode
        entered == [session EXCEPT
                        !.message_count = @ + 1,
                        !.mode = current_mode,
                        !.context = Append(@, [role |-> "user", mode |-> current_mode])]
        done == Dispatch(entered, message, intent, classifier, completion, outcomes)
    IN  /\ MessagesProcessed(DOMAIN active_sessions) < MaxMessages
        /\ known \/ next_session <= MaxSessions
        /\ active_sessions' = Put(active_sessions, session_id, done.result.session)
        /\ next_session' = IF known THEN next_session ELSE next_session + 1
        /\ codeact_sessions' = IF done.result.workspace
                               THEN codeact_sessions
                                    \cup {done.result.session.workspace_id}
                               ELSE codeact_sessions
        /\ next_workspace' = IF done.result.workspace /\ entered.workspace_id = 0
                             THEN next_workspace + 1
                             ELSE next_workspace
        /\ mode_tasks' = IF done.result.task
                         THEN Put(mode_tasks, next_mode_task,
                                  NewTask(analyze_intent(classifier)))
                         ELSE mode_tasks
        /\ next_mode_task' = IF done.result.task THEN next_mode_task + 1
                             ELSE next_mode_task
        /\ modeResp' = [ModeResp(given_id, session_id,
                                 IF done.result.raised THEN "raised" ELSE "ok",
                                 done.result.mode, done.result.message, done.analysis,
                                 done.switched, done.clarification,
                                 IF done.result.task THEN next_mode_task ELSE 0)
                        EXCEPT !.text = message, !.override = mode,
                               !.fallback = intent.raises,
                               !.execution = done.result.execution]

\* a cleanup_session that forgets the session and leaves its workspace behind
cleanup_session_keeps_workspace(session_id) ==
    IF session_id \in DOMAIN active_sessions
    THEN /\ active_sessions' = Del(active_sessions, session_id)
         /\ modeResp' = [ModeResp(session_id, session_id, "true", "-", "-",
                                  NoAnalysis, FALSE, FALSE, 0)
                         EXCEPT !.op = "cleanup_session"]
         /\ UNCHANGED <<next_session, codeact_sessions, next_workspace,
                        mode_tasks, next_mode_task>>
    ELSE /\ modeResp' = [ModeResp(session_id, session_id, "false", "-", "-",
                                  NoAnalysis, FALSE, FALSE, 0)
                         EXCEPT !.op = "cleanup_session"]
         /\ UNCHANGED <<active_sessions, next_session, codeact_sessions,
                        next_workspace, mode_tasks, next_mode_task>>

\* ChatModeManager.cleanup_session with CodeActEngine.cleanup_session
cleanup_session(session_id) ==
    IF session_id \in DOMAIN active_sessions
    THEN /\ codeact_sessions' = codeact_sessions
                                \ {active_sessions[session_id].workspace_id}
         /\ active_sessions' = Del(active_sessions, session_id)
         /\ modeResp' = [ModeResp(session_id, session_id, "true", "-", "-",
                                  NoAnalysis, FALSE, FALSE, 0)
                         EXCEPT !.op = "cleanup_session"]
         /\ UNCHANGED <<next_session, next_workspace, mode_tasks, next_mode_task>>
    ELSE /\ modeResp' = [ModeResp(session_id, session_id, "false", "-", "-",
                                  NoAnalysis, FALSE, FALSE, 0)
                         EXCEPT !.op = "cleanup_session"]
         /\ UNCHANGED <<active_sessions, next_session, codeact_sessions,
                        next_workspace, mode_tasks, next_mode_task>>

\* ChatModeManager.__init__
ModeConstructed ==
    /\ active_sessions = EmptyDict
    /\ next_session = 1
    /\ codeact_sessions = {}
    /\ next_workspace = 1
    /\ mode_tasks = EmptyDict
    /\ next_mode_task = 1
    /\ modeResp = [ModeResp(0, 0, "-", "-", "-", NoAnalysis, FALSE, FALSE, 0)
                   EXCEPT !.op = "init"]

(***************************************************************************)
(* send_message under the threaded server: /chat/send requests of the      *)
(* same user overlap, and between the statements of _check_rate_limit      *)
(* another thread may run.  A call is a sequence of steps of one of the     *)
(* Threads: "store" (the pruned list is built from the list read),         *)
(* "check" (the pruned list is stored), "append" (both tests passed).       *)
(***************************************************************************)
VARIABLES
    rate_calls              \* per thread: where its send_message call stands

raceVars == <<rate_calls>>

RateIdle == [pc |-> "idle", user_id |-> "-", channel_id |-> "-", content |-> 0,
             current_time |-> 0, pruned |-> <<>>]

\* send_message up to the list comprehension of _check_rate_limit: the user,
\* the channel and the permission are checked, time.time() is read and the
\* pruned list is built from the stored one
rate_limit_read(thread, user_id, channel_id, content) ==
    /\ rate_calls[thread].pc = "idle"
    /\ user_id \in DOMAIN users
    /\ channel_id \in ChannelIds
    /\ can_user_send_message(users[user_id], channels[channel_id])
    /\ rate_calls' = [rate_calls EXCEPT ![thread] =
            [pc |-> "store", user_id |-> user_id, channel_id |-> channel_id,
             content |-> content, current_time |-> clock,
             pruned |-> PruneHistory(user_message_history[user_id], clock)]]
    /\ UNCHANGED chatVars

\* self.user_message_history[user_id] = [...]
rate_limit_store(thread) ==
    LET call == rate_calls[thread]
    IN  /\ call.pc = "store"
        /\ user_message_history' =
                [user_message_history EXCEPT ![call.user_id] = call.pruned]
        /\ rate_calls' = [rate_calls EXCEPT ![thread].pc = "check"]
        /\ UNCHANGED <<users, channel_message_count, messages, active_connections,
                       user_connections, clock, next_id, chatResp, accepted,
                       sent_log, limited>>

\* the count test on the stored list and the size test; a refused call returns
rate_limit_check(thread) ==
    LET call == rate_calls[thread]
        limits == rate_limits[users[call.user_id].role]
    IN  /\ call.pc = "check"
        /\ IF Len(user_message_history[call.user_id]) >= limits.messages_per_minute
           THEN /\ rate_calls' = [rate_calls EXCEPT ![thread] = RateIdle]
                /\ chatResp' = SendResp(call.user_id, call.channel_id, call.content,
                                        0, "Rate limit exceeded")
                /\ limited' = limited \cup {call.user_id}
           ELSE IF call.content > limits.characters_per_message
           THEN /\ rate_calls' = [rate_calls EXCEPT ![thread] = RateIdle]
                /\ chatResp' = SendResp(call.user_id, call.channel_id, call.content,
                                        0, "Rate limit exceeded")
                /\ limited' = limited
           ELSE /\ rate_calls' = [rate_calls EXCEPT ![thread].pc = "append"]
                /\ UNCHANGED <<chatResp, limited>>
        /\ UNCHANGED <<users, channel_message_count, messages, active_connections,
                       user_connections, user_message_history, clock, next_id,
                       accepted, sent_log>>

\* self.user_message_history[user_id].append(current_time), and the rest of
\* send_message
rate_limit_append(thread) ==
    LET call == rate_calls[thread]
    IN  /\ call.pc = "append"
        /\ user_message_history' = [user_message_history EXCEPT
                ![call.user_id] = Append(@, call.current_time)]
        /\ messages' = [messages EXCEPT ![call.channel_id] =
                MaintainLimit(Append(@, NewMessage(next_id, call.user_id,
                                call.content, call.channel_id, clock)))]
        /\ users' = [users EXCEPT ![call.user_id].message_count = @ + 1]
        /\ channel_message_count' =
                [channel_message_count EXCEPT ![call.channel_id] = @ + 1]
        /\ next_id' = next_id + 1
        /\ accepted' = [accepted EXCEPT ![call.user_id] = Append(@, call.current_time)]
        /\ sent_log' = [sent_log EXCEPT ![call.channel_id] = Append(@, next_id)]
        /\ chatResp' = SendResp(call.user_id, call.channel_id, call.content,
                                next_id, "sent")
        /\ rate_calls' = [rate_calls EXCEPT ![thread] = RateIdle]
        /\ UNCHANGED <<active_connections, user_connections, clock, limited>>

\* no request is being served
RaceConstructed == rate_calls = [t \in Threads |-> RateIdle]

(***************************************************************************)
(* ReferralSystem: referral profiles, codes and the record of referrals.   *)
(* Credits balances, achievements and share counters are left out.         *)
(***************************************************************************)
VARIABLES
    ref_users,              \* self.users: user_id -> referral profile
    referral_codes,         \* self.referral_codes: code -> user_id
    referral_history,       \* self.referral_history: referrer_id -> records
    next_code,              \* the next code _generate_referral_code returns
    ref_calls,              \* calls made so far
    refResp                 \* what the last call returned

refVars == <<ref_users, referral_codes, referral_history, next_code, ref_calls,
             refResp>>

MaxRefCalls == 3

RefUserIds == {"r1", "n1", "n2"}

\* class ReferralTier
ReferralTier == {"bronze", "silver", "gold", "platinum", "diamond"}

\* self.tier_rewards[tier].bonus_multiplier, in hundredths
bonus_multiplier ==
    [bronze |-> 100, silver |-> 125, gold |-> 150, platinum |-> 200,
     diamond |-> 300]

base_reward == 500

\* int(base_reward * tier_multiplier)
total_reward(tier) == (base_reward * bonus_multiplier[tier]) \div 100

\* "Determine new tier" of _update_user_tier
new_tier(referral_count) ==
    IF referral_count >= 100 THEN "diamond"
    ELSE IF referral_count >= 50 THEN "platinum"
    ELSE IF referral_count >= 25 THEN "gold"
    ELSE IF referral_count >= 10 THEN "silver"
    ELSE "bronze"

\* _update_user_tier on a profile
update_user_tier(profile) ==
    LET tier == new_tier(profile.successful_referrals)
    IN  IF tier # profile.tier
        THEN [profile EXCEPT !.tier = tier, !.bonus_multiplier = bonus_multiplier[tier]]
        ELSE profile

\* the profile create_user_referral_profile stores
NewProfile(referral_code) ==
    [referral_code |-> referral_code, total_referrals |-> 0,
     successful_referrals |-> 0, tier |-> "bronze", referred_by |-> "-",
     bonus_multiplier |-> 100]

RefResp(op, user_id, referral_code, result) ==
    [op |-> op, user_id |-> user_id, referral_code |-> referral_code,
     result |-> result]

create_user_referral_profile(user_id) ==
    /\ ref_users' = Put(ref_users, user_id, NewProfile(next_code))
    /\ referral_codes' = Put(referral_codes, next_code, user_id)
    /\ next_code' = next_code + 1
    /\ ref_calls' = ref_calls + 1
    /\ refResp' = RefResp("create", user_id, next_code, "ok")
    /\ UNCHANGED referral_history

\* the referrer's profile and the record after the referrer's update, in the
\* order of the code: counters, reward from the tier before, tier update, record
Referral(profiles, referrer_id, new_user_id, referral_code) ==
    LET counted == [profiles[referrer_id] EXCEPT
                        !.total_referrals = @ + 1,
                        !.successful_referrals = @ + 1]
        reward == total_reward(counted.tier)
        updated == update_user_tier(counted)
    IN  [profile |-> updated,
         record |-> [referrer_id |-> referrer_id, referred_user_id |-> new_user_id,
                     referral_code |-> referral_code, credits_awarded |-> reward,
                     tier_at_time |-> updated.tier]]

process_referral_signup(new_user_id, referral_code) ==
    /\ ref_calls' = ref_calls + 1
    /\ IF referral_code \notin DOMAIN referral_codes
       THEN /\ refResp' = RefResp("signup", new_user_id, referral_code,
                                  "Invalid referral code")
            /\ UNCHANGED <<ref_users, referral_codes, referral_history, next_code>>
       ELSE IF referral_codes[referral_code] \notin DOMAIN ref_users
       THEN /\ refResp' = RefResp("signup", new_user_id, referral_code,
                                  "Referrer not found")
            /\ UNCHANGED <<ref_users, referral_codes, referral_history, next_code>>
       ELSE LET referrer_id == referral_codes[referral_code]
                created == Put(ref_users, new_user_id,
                               [NewProfile(next_code) EXCEPT !.referred_by = referrer_id])
                done == Referral(created, referrer_id, new_user_id, referral_code)
            IN  /\ ref_users' = [created EXCEPT ![referrer_id] = done.profile]
                /\ referral_codes' = Put(referral_codes, next_code, new_user_id)
                /\ next_code' = next_code + 1
                /\ referral_history' =
                        Put(referral_history, referrer_id,
                            Append(IF referrer_id \in DOMAIN referral_history
                                   THEN referral_history[referrer_id] ELSE <<>>,
                                   done.record))
                /\ refResp' = RefResp("signup", new_user_id, referral_code, "ok")

\* ReferralSystem.__init__
RefConstructed ==
    /\ ref_users = EmptyDict
    /\ referral_codes = EmptyDict
    /\ referral_history = EmptyDict
    /\ next_code = 1
    /\ ref_calls = 0
    /\ refResp = RefResp("init", "-", 0, "-")

\* the referrer's profile after k signups through its code
ProfileAfter(k) ==
    update_user_tier([NewProfile(1) EXCEPT !.total_referrals = k,
                                           !.successful_referrals = k])

\* The state right after create_user_referral_profile("r1") and then k calls
\* process_referral_signup("n1", the code of "r1"): each of them stores a new
\* profile, under a new code, for "n1".
AfterReferrals(k) ==
    /\ ref_users =
            IF k = 0 THEN [u \in {"r1"} |-> ProfileAfter(0)]
            ELSE [u \in {"r1", "n1"} |->
                    IF u = "r1" THEN ProfileAfter(k)
                    ELSE [NewProfile(k + 1) EXCEPT !.referred_by = "r1"]]
    /\ referral_codes = [c \in 1..(k + 1) |-> IF c = 1 THEN "r1" ELSE "n1"]
    /\ referral_history =
            IF k = 0 THEN EmptyDict
            ELSE [u \in {"r1"} |->
                    [i \in 1..k |->
                        Referral([r1 |-> ProfileAfter(i - 1)], "r1", "n1", 1).record]]
    /\ next_code = k + 2
    /\ ref_calls = 0
    /\ refResp = IF k = 0 THEN RefResp("create", "r1", 1, "ok")
                 ELSE RefResp("signup", "n1", 1, "ok")

(***************************************************************************)
(* Specifications.  Every specification starts each of the                 *)
(* components in a state the program can be in and lets the operations of  *)
(* one component run.                                                      *)
(***************************************************************************)
vars == <<chatVars, taskVars, modeVars, raceVars, refVars>>

\* channel ids a caller may pass: one channel of each type and an unknown id
ChannelInputs == {"general", "founders", "announcements", "nochannel"}

InitChat ==
    /\ \/ ChatConstructed
       \/ AfterBurst("u1", "moderator", "founders", RecentLimit + 1)
    /\ TaskConstructed
    /\ ModeConstructed
    /\ RaceConstructed
    /\ RefConstructed

\* "u2" is never registered: it is the unknown user of send and join
Register == \E r \in UserRole : register_user("u1", r)

Send ==
    /\ next_id <= MaxChatSends
    /\ \E u \in UserIds, c \in ChannelInputs : send_message(u, c, 1)

Join == \E u \in UserIds, c \in ChannelInputs : join_channel(u, c, "ws1")

NextChat ==
    \/ Register /\ UNCHANGED <<taskVars, modeVars, raceVars, refVars>>
    \/ Send /\ UNCHANGED <<taskVars, modeVars, raceVars, refVars>>
    \/ Join /\ UNCHANGED <<taskVars, modeVars, raceVars, refVars>>

SpecChat == InitChat /\ [][NextChat]_vars

\* Reactions: "u1" is registered as a USER and sends; "u1" and "u2" react
\* (add_reaction does not look its user_id up) to the first message, to message
\* number MaxChatSends and to an id that no message carries.
InitReact ==
    /\ AfterBurst("u1", "user", "general", 0)
    /\ TaskConstructed
    /\ ModeConstructed
    /\ RaceConstructed
    /\ RefConstructed

ReactSend ==
    /\ next_id <= MaxChatSends
    /\ \E c \in {"general", "creators"} : send_message("u1", c, 1)

React ==
    \E u \in UserIds, m \in {1, MaxChatSends, MaxChatSends + 1}, e \in Emojis :
        add_reaction(u, m, e)

NextReact ==
    \/ ReactSend /\ UNCHANGED <<taskVars, modeVars, raceVars, refVars>>
    \/ React /\ UNCHANGED <<taskVars, modeVars, raceVars, refVars>>

SpecReact == InitReact /\ [][NextReact]_vars

\* A burst: one user of each role who has just filled all but BurstLeft slots of
\* the rate window goes on sending, with bodies at and over the size limit;
\* sends also name the unregistered "u2" and a channel that does not exist.
InitBurst ==
    /\ \E r \in UserRole :
         AfterBurst("u1", r, "general",
                    rate_limits[r].messages_per_minute - BurstLeft)
    /\ TaskConstructed
    /\ ModeConstructed
    /\ RaceConstructed
    /\ RefConstructed

BurstSend ==
    /\ next_id <= MaxSends
    /\ \E u \in UserIds, c \in {"general", "announcements", "nochannel"},
          n \in {rate_limits[users["u1"].role].characters_per_message,
                 rate_limits[users["u1"].role].characters_per_message + 1} :
            send_message(u, c, n)

NextBurst ==
    \/ BurstSend /\ UNCHANGED <<taskVars, modeVars, raceVars, refVars>>
    \/ Tick /\ UNCHANGED <<taskVars, modeVars, raceVars, refVars>>

SpecBurst == InitBurst /\ [][NextBurst]_vars

\* Overlapping sends: a GUEST or a USER with one slot left in the rate window
\* sends to "general" from two request threads, with bodies at and over the
\* size limit, while time passes.
InitRace ==
    /\ \E r \in {"guest", "user"} :
         AfterBurst("u1", r, "general", rate_limits[r].messages_per_minute - 1)
    /\ TaskConstructed
    /\ ModeConstructed
    /\ RaceConstructed
    /\ RefConstructed

RaceRead ==
    /\ next_id <= MaxSends
    /\ \E th \in Threads,
          n \in {rate_limits[users["u1"].role].characters_per_message,
                 rate_limits[users["u1"].role].characters_per_message + 1} :
            rate_limit_read(th, "u1", "general", n)

RaceStore == \E th \in Threads : rate_limit_store(th)

RaceCheck == \E th \in Threads : rate_limit_check(th)

RaceAppend == \E th \in Threads : rate_limit_append(th)

NextRace ==
    \/ RaceRead /\ UNCHANGED <<taskVars, modeVars, refVars>>
    \/ RaceStore /\ UNCHANGED <<taskVars, modeVars, refVars>>
    \/ RaceCheck /\ UNCHANGED <<taskVars, modeVars, refVars>>
    \/ RaceAppend /\ UNCHANGED <<taskVars, modeVars, refVars>>
    \/ Tick /\ UNCHANGED <<taskVars, modeVars, raceVars, refVars>>

SpecRace == InitRace /\ [][NextRace]_vars

\* Registration during a burst: a GUEST or a USER with one slot left in the
\* rate window sends, connects, joins, disconnects and is registered again
\* under the same id with the same role, while time passes.
InitRereg ==
    /\ \E r \in {"guest", "user"} :
         AfterBurst("u1", r, "general", rate_limits[r].messages_per_minute - 1)
    /\ TaskConstructed
    /\ ModeConstructed
    /\ RaceConstructed
    /\ RefConstructed

Reregister == register_user("u1", users["u1"].role)

ReregSend ==
    /\ next_id <= MaxSends
    /\ send_message("u1", "general", 1)

ReregConnect == connect_user("u1", "ws1")

ReregDisconnect == disconnect_user("ws1")

ReregJoin == join_channel("u1", "general", "ws1")

NextRereg ==
    \/ Reregister /\ UNCHANGED <<taskVars, modeVars, raceVars, refVars>>
    \/ ReregSend /\ UNCHANGED <<taskVars, modeVars, raceVars, refVars>>
    \/ ReregConnect /\ UNCHANGED <<taskVars, modeVars, raceVars, refVars>>
    \/ ReregDisconnect /\ UNCHANGED <<taskVars, modeVars, raceVars, refVars>>
    \/ ReregJoin /\ UNCHANGED <<taskVars, modeVars, raceVars, refVars>>
    \/ Tick /\ UNCHANGED <<taskVars, modeVars, raceVars, refVars>>

SpecRereg == InitRereg /\ [][NextRereg]_vars

\* Referrals: a referrer two signups short of a tier (or with none yet) gets
\* signups through the codes in use and through an unknown code, and profiles
\* are created directly.
ReferralStarts == {0, 8, 23, 48, 98}

InitRef ==
    /\ ChatConstructed
    /\ TaskConstructed
    /\ ModeConstructed
    /\ RaceConstructed
    /\ \E k \in ReferralStarts : AfterReferrals(k)

CreateProfile ==
    /\ ref_calls < MaxRefCalls
    /\ \E u \in RefUserIds : create_user_referral_profile(u)

\* code 0 is no user's code
Signup ==
    /\ ref_calls < MaxRefCalls
    /\ \E new \in RefUserIds,
          code \in {0} \cup {ref_users[u].referral_code : u \in DOMAIN ref_users} :
            process_referral_signup(new, code)

NextRef ==
    \/ CreateProfile /\ UNCHANGED <<chatVars, taskVars, modeVars, raceVars>>
    \/ Signup /\ UNCHANGED <<chatVars, taskVars, modeVars, raceVars>>

SpecRef == InitRef /\ [][NextRef]_vars

\* Connections: users register, connect over the handles "ws1" and "ws2" (a
\* user may hold both), join and leave channels with either handle, and
\* disconnect.
InitConn ==
    /\ ChatConstructed
    /\ TaskConstructed
    /\ ModeConstructed
    /\ RaceConstructed
    /\ RefConstructed

ConnRoles == {"user", "founder"}

ConnChannels == {"general", "founders"}

ConnRegister == \E u \in UserIds, r \in ConnRoles : register_user(u, r)

Connect == \E u \in UserIds, h \in Handles : connect_user(u, h)

Disconnect == \E h \in Handles : disconnect_user(h)

\* join_channel and leave_channel take the user id and the handle as separate
\* arguments: the handle need not be connected, nor be the user's
ConnJoin ==
    \E u \in UserIds, h \in Handles, c \in ConnChannels : join_channel(u, c, h)

Leave ==
    \E u \in UserIds, h \in Handles, c \in ConnChannels : leave_channel(u, c, h)

NextConn ==
    \/ ConnRegister /\ UNCHANGED <<taskVars, modeVars, raceVars, refVars>>
    \/ Connect /\ UNCHANGED <<taskVars, modeVars, raceVars, refVars>>
    \/ Disconnect /\ UNCHANGED <<taskVars, modeVars, raceVars, refVars>>
    \/ ConnJoin /\ UNCHANGED <<taskVars, modeVars, raceVars, refVars>>
    \/ Leave /\ UNCHANGED <<taskVars, modeVars, raceVars, refVars>>

SpecConn == InitConn /\ [][NextConn]_vars

\* The task registry behind /autonomous: requests create tasks and execute
\* them, two request threads at a time.
InitTask ==
    /\ ChatConstructed
    /\ TaskConstructed
    /\ ModeConstructed
    /\ RaceConstructed
    /\ RefConstructed

\* task ids a caller may pass: 0 is no task's id
TaskInputs == 0..MaxTasks

Create == \E outcome \in ClassifierOutcomes(ClassifierAnswers) : create_task(outcome)

Execute == \E th \in Threads, id \in TaskInputs : execute_task(th, id)

CallRaises == \E th \in Threads : executor_call_raises(th)

ResponseUnusable == \E th \in Threads : executor_response_unusable(th)

Except == \E th \in Threads : executor_except(th)

WebsiteCreation == \E th \in Threads : execute_website_creation(th)

WebsiteDeployment == \E th \in Threads : website_deployment(th)

OtherExecutor == \E th \in Threads : execute_other(th)

NextTask ==
    \/ Create /\ UNCHANGED <<chatVars, modeVars, raceVars, refVars>>
    \/ Execute /\ UNCHANGED <<chatVars, modeVars, raceVars, refVars>>
    \/ CallRaises /\ UNCHANGED <<chatVars, modeVars, raceVars, refVars>>
    \/ ResponseUnusable /\ UNCHANGED <<chatVars, modeVars, raceVars, refVars>>
    \/ Except /\ UNCHANGED <<chatVars, modeVars, raceVars, refVars>>
    \/ WebsiteCreation /\ UNCHANGED <<chatVars, modeVars, raceVars, refVars>>
    \/ WebsiteDeployment /\ UNCHANGED <<chatVars, modeVars, raceVars, refVars>>
    \/ OtherExecutor /\ UNCHANGED <<chatVars, modeVars, raceVars, refVars>>

SpecTask == InitTask /\ [][NextTask]_vars

\* The chat-mode manager: sessions are created, process messages and are
\* cleaned up.
InitMode ==
    /\ ChatConstructed
    /\ TaskConstructed
    /\ ModeConstructed
    /\ RaceConstructed
    /\ RefConstructed

\* the classifier answers create_task meets on the agent path
AgentAnswers ==
    {[task_type |-> "website_creation", steps |-> <<"step1">>, complete |-> TRUE],
     [task_type |-> "no_such_type", steps |-> <<"step1">>, complete |-> TRUE]}

\* session ids a caller may pass: the ids handed out so far and 0, no session's id
CreateSession == \E mode \in ChatMode : create_chat_session(mode)

\* What the collaborators of one process_message call do.  Without a key for
\* the completion service the intent call raises and the keyword fallback
\* decides; from that baseline one collaborator at a time behaves otherwise.
Baseline ==
    [intent |-> CHOOSE o \in IntentOutcomes : o.raises,
     classifier |-> [raises |-> FALSE,
                     answer |-> CHOOSE a \in AgentAnswers :
                                    a.task_type = "website_creation"],
     completion |-> "ok",
     outcomes |-> [i \in 1..max_iterations |-> "success"]]

Environments ==
    {[Baseline EXCEPT !.intent = o] : o \in IntentOutcomes}
    \cup {[Baseline EXCEPT !.classifier = c] : c \in ClassifierOutcomes(AgentAnswers)}
    \cup {[Baseline EXCEPT !.completion = "raise"]}
    \cup {[Baseline EXCEPT !.outcomes = o] : o \in ExecutionOutcomes}

\* The requests: every message under the baseline, and every environment under
\* the message the fallback routes to agent mode with high confidence.
Requests ==
    {[message |-> m, env |-> Baseline] : m \in Messages}
    \cup {[message |-> MsgBuildDeployApp, env |-> e] : e \in Environments}

ProcessMessage ==
    \E given_id \in 0..MaxSessions, mode \in ChatMode \cup {"none"},
       request \in Requests :
        /\ given_id < next_session
        /\ process_message(given_id, request.message, mode, request.env.intent,
                           request.env.classifier, request.env.completion,
                           request.env.outcomes)

CleanupSession ==
    \E session_id \in 0..MaxSessions :
        /\ session_id < next_session
        /\ cleanup_session(session_id)

NextMode ==
    \/ CreateSession /\ UNCHANGED <<chatVars, taskVars, raceVars, refVars>>
    \/ ProcessMessage /\ UNCHANGED <<chatVars, taskVars, raceVars, refVars>>
    \/ CleanupSession /\ UNCHANGED <<chatVars, taskVars, raceVars, refVars>>

SpecMode == InitMode /\ [][NextMode]_vars

(***************************************************************************)
(* Properties of the rate limiter and of the channel store (SpecBurst).    *)
(***************************************************************************)
\* the sends of user_id accepted less than RateWindow before now, counted on the
\* record of all accepted sends
WindowCount(user_id) ==
    Cardinality({i \in 1..Len(accepted[user_id]) :
                    clock - accepted[user_id][i] < RateWindow})

\* a step that is a send_message call by a registered user who may send to the
\* channel, with a body within the size limit of the user's role
PermittedSend ==
    /\ clock' = clock
    /\ chatResp'.op = "send"
    /\ chatResp'.user \in DOMAIN users
    /\ chatResp'.channel \in ChannelIds
    /\ can_user_send_message(users[chatResp'.user], channels[chatResp'.channel])
    /\ chatResp'.content
          <= rate_limits[users[chatResp'.user].role].characters_per_message

\* C1: a permitted, size-conforming send is refused as rate-limited exactly when
\* the sender already has messages_per_minute accepted sends less than 60 units
\* old, so of messages_per_minute + 1 sends in one window the last one, and only
\* it, is refused; once every accepted send is at least 60 units old the next
\* send succeeds.
C1_RateLimitBurst ==
    [][PermittedSend =>
        LET user_id == chatResp'.user
            limit == rate_limits[users[user_id].role].messages_per_minute
        IN  /\ chatResp'.result \in {"sent", "Rate limit exceeded"}
            /\ chatResp'.result = "Rate limit exceeded"
                  <=> WindowCount(user_id) >= limit
            /\ (\A i \in 1..Len(accepted[user_id]) :
                    clock - accepted[user_id][i] >= RateWindow)
                  => chatResp'.result = "sent"
            /\ chatResp'.result = "sent"
                  => accepted'[user_id] = Append(accepted[user_id], clock)]_vars

\* C1 witness: "u1" was refused for the message count, and after the window has
\* slid the send that makes messages_per_minute + 1 accepted ones succeeded.
C1_Witness ==
    /\ "u1" \in limited
    /\ chatResp.op = "send"
    /\ chatResp.result = "sent"
    /\ clock >= RateWindow
    /\ Len(accepted["u1"]) = rate_limits[users["u1"].role].messages_per_minute + 1

\* C6: every channel stores at most max_messages_per_channel messages, and they
\* are the most recent min(k, max_messages_per_channel) of the k messages sent
\* to it, in send order.
C6_FifoCap ==
    \A c \in ChannelIds :
        LET stored == Len(messages[c])
            k == Len(sent_log[c])
        IN  /\ stored <= max_messages_per_channel
            /\ stored = Min(k, max_messages_per_channel)
            /\ \A i \in 1..stored :
                    messages[c][i].message_id = sent_log[c][k - stored + i]

\* C6 witness: 1001 messages were sent to "general"; 1000 are stored and the
\* oldest one is gone.
C6_Witness ==
    /\ Len(sent_log["general"]) = max_messages_per_channel + 1
    /\ Len(messages["general"]) = max_messages_per_channel
    /\ messages["general"][1].message_id = sent_log["general"][2]
    /\ messages["general"][max_messages_per_channel].message_id = next_id - 1

(***************************************************************************)
(* Properties of reactions (SpecReact) and of permissions (SpecChat).      *)
(***************************************************************************)
\* how often user_id occurs in the list of emoji on a message
Occurrences(message, emoji, user_id) ==
    IF emoji \in DOMAIN message.reactions
    THEN Cardinality({i \in 1..Len(message.reactions[emoji]) :
                        message.reactions[emoji][i] = user_id})
    ELSE 0

\* the stored places of the message with this id
Stored(message_id) ==
    UNION {{<<c, i>> : i \in {j \in DOMAIN messages[c] :
                                  messages[c][j].message_id = message_id}} :
           c \in ChannelIds}

\* C7: no user is ever twice in a reaction list; add_reaction on a stored
\* message succeeds and leaves the user exactly once in the list of the emoji,
\* changing nothing when the user is already there; on an unknown message id it
\* fails with "Message not found" and changes no message.
C7_ReactIdempotent ==
    /\ [](\A c \in ChannelIds : \A i \in 1..Len(messages[c]) :
            \A e \in Emojis, u \in UserIds :
                Occurrences(messages[c][i], e, u) <= 1)
    /\ [][chatResp'.op = "react" =>
            LET u == chatResp'.user
                e == chatResp'.handle
                m == chatResp'.message_id
            IN  IF Stored(m) = {}
                THEN /\ chatResp'.result = "Message not found"
                     /\ messages' = messages
                ELSE /\ chatResp'.result = "added"
                     /\ \A slot \in Stored(m) :
                          /\ Occurrences(messages'[slot[1]][slot[2]], e, u) = 1
                          /\ Occurrences(messages[slot[1]][slot[2]], e, u) = 1
                                => messages' = messages]_vars

\* C7 witness: "u1" reacted to message 1 again after "u2" had reacted with the
\* same emoji; the call succeeded and "u1" is in the list once.
C7_Witness ==
    /\ chatResp.op = "react"
    /\ chatResp.user = "u1"
    /\ chatResp.handle = "thumbsup"
    /\ chatResp.message_id = 1
    /\ chatResp.result = "added"
    /\ Stored(1) # {}
    /\ \A slot \in Stored(1) :
            messages[slot[1]][slot[2]].reactions =
                Put(EmptyDict, "thumbsup", <<"u1", "u2">>)

\* GUEST < USER < CREATOR < FOUNDER < MODERATOR < ADMIN
RoleRank ==
    [guest |-> 0, user |-> 1, creator |-> 2, founder |-> 3, moderator |-> 4,
     admin |-> 5]

\* the last call was op, made by a registered user on an existing channel
CallOn(op) ==
    /\ chatResp.op = op
    /\ chatResp.user \in DOMAIN users
    /\ chatResp.channel \in ChannelIds

\* C8: send on a read-only channel is refused with "Permission denied" exactly
\* when the sender's role is below MODERATOR, and on a restricted channel
\* exactly when it is below the channel's required role; on a public channel
\* it is never refused for permission.
C8_SendPermission ==
    CallOn("send") =>
        LET role == users[chatResp.user].role
            channel == channels[chatResp.channel]
            denied == chatResp.result = "Permission denied"
        IN  /\ channel.type = "read_only"
                => (denied <=> RoleRank[role] < RoleRank["moderator"])
            /\ channel.type = "restricted"
                => (denied <=> RoleRank[role] < RoleRank[channel.required_role])
            /\ channel.type = "public" => ~denied
            /\ ~denied => chatResp.result \in {"sent", "Rate limit exceeded"}

\* C8 witness: "announcements" holds a message (sent by "u1" as MODERATOR or
\* ADMIN), and "u1", now a GUEST, has just been refused there.
C8_Witness ==
    /\ CallOn("send")
    /\ chatResp.channel = "announcements"
    /\ chatResp.result = "Permission denied"
    /\ users[chatResp.user].role = "guest"
    /\ Len(messages["announcements"]) > 0

\* C9: join is refused with "Permission denied" exactly when the channel is
\* restricted and the user's role is below its required role (so read-only
\* channels are joinable by every role); a refused join leaves the membership
\* sets as they were; a successful join puts the handle into the channel's
\* membership set and returns the last min(50, n) of the channel's n messages.
C9_JoinPermission ==
    /\ [](CallOn("join") =>
            LET role == users[chatResp.user].role
                channel == channels[chatResp.channel]
                stored == messages[chatResp.channel]
                denied == chatResp.result = "Permission denied"
            IN  /\ denied <=> /\ channel.type = "restricted"
                              /\ RoleRank[role] < RoleRank[channel.required_role]
                /\ ~denied =>
                    /\ chatResp.result = "joined"
                    /\ chatResp.handle \in active_connections[chatResp.channel]
                    /\ Len(chatResp.recent) <= 50
                    /\ Len(chatResp.recent) = Min(50, Len(stored))
                    /\ \A i \in 1..Len(chatResp.recent) :
                          chatResp.recent[i] =
                            stored[Len(stored) - Len(chatResp.recent) + i].message_id)
    /\ [][chatResp'.op = "join" /\ chatResp'.result # "joined"
            => active_connections' = active_connections]_vars

\* C9 witness: "u1", re-registered as FOUNDER, has joined "founders", which holds
\* 51 messages, and got the 50 most recent ones.
C9_Witness ==
    /\ CallOn("join")
    /\ chatResp.channel = "founders"
    /\ users[chatResp.user].role = "founder"
    /\ chatResp.result = "joined"
    /\ Len(messages["founders"]) = RecentLimit + 1
    /\ Len(chatResp.recent) = 50
    /\ chatResp.recent[1] = messages["founders"][2].message_id

(***************************************************************************)
(* Properties of the task registry (SpecTask).                             *)
(***************************************************************************)
Terminal == {"completed", "error"}

\* C2: while a task is COMPLETED or ERROR and no earlier call is still working
\* on it, no step (so no later execute_task call) changes its status, progress
\* or results, and none dispatches an executor on it.
C2_TerminalNotRerun ==
    [][\A id \in DOMAIN active_tasks :
            /\ active_tasks[id].status \in Terminal
            /\ \A thread \in Threads : exec[thread].task_id # id
            => /\ active_tasks'[id] = active_tasks[id]
               /\ runs'[id] = runs[id]
               /\ \A thread \in Threads : exec'[thread].task_id # id]_vars

\* C3: from one step to the next the progress of a task does not decrease while
\* its status is not ERROR.
C3_ProgressMonotone ==
    [][\A id \in DOMAIN active_tasks :
            /\ active_tasks[id].status # "error"
            /\ active_tasks'[id].status # "error"
            => active_tasks'[id].progress >= active_tasks[id].progress]_vars

\* PLANNING -> EXECUTING -> {TESTING -> DEPLOYING ->} COMPLETED, and ERROR from
\* every status that is not terminal
LifecycleEdges ==
    {<<"planning", "executing">>, <<"executing", "testing">>,
     <<"testing", "deploying">>, <<"deploying", "completed">>,
     <<"executing", "completed">>}
    \cup {<<s, "error">> : s \in {"planning", "executing", "testing", "deploying"}}

\* C4: a new task is PLANNING, every status change follows an edge of the
\* lifecycle, and no status change leaves COMPLETED or ERROR.
C4_Lifecycle ==
    [][\A id \in DOMAIN active_tasks' :
            IF id \in DOMAIN active_tasks
            THEN \/ active_tasks'[id].status = active_tasks[id].status
                 \/ <<active_tasks[id].status, active_tasks'[id].status>>
                        \in LifecycleEdges
            ELSE active_tasks'[id].status = "planning"]_vars

\* C5: right after create_task returned an id, get_task_status of that id
\* reports status PLANNING, progress 0 and current_step 0, with the type and
\* the number of steps the classifier gave.
C5_CreateStatusRoundTrip ==
    [][taskResp'.op = "create" /\ taskResp'.result = "ok" /\ next_task' # next_task
        => LET report == get_task_status(active_tasks', taskResp'.task_id)
           IN  /\ taskResp'.task_id \notin DOMAIN active_tasks
               /\ DOMAIN report # {"error"}
               /\ report.task_id = taskResp'.task_id
               /\ report.status = "planning"
               /\ report.progress = 0
               /\ report.current_step = 0]_vars

\* C5 witness: a website task with a plan of three steps has just been created
\* and get_task_status reports it as PLANNING at step 0 of 3.
C5_Witness ==
    /\ taskResp.op = "create"
    /\ taskResp.result = "ok"
    /\ LET report == get_task_status(active_tasks, taskResp.task_id)
       IN  /\ DOMAIN report # {"error"}
           /\ report.type = "website_creation"
           /\ report.total_steps = 3
           /\ report.status = "planning"
           /\ report.progress = 0
           /\ report.current_step = 0
           /\ report.step_name = "step1"

(***************************************************************************)
(* Properties of the chat-mode manager (SpecMode).                         *)
(***************************************************************************)
\* a process_message step on a stored session in ADAPTIVE mode with empty
\* context, without a mode argument, for "build me a website", when the intent
\* call raises and the keyword fallback decides
AdaptiveBuildWebsite ==
    /\ modeResp'.op = "process_message"
    /\ modeResp'.given_id \in DOMAIN active_sessions
    /\ active_sessions[modeResp'.given_id].mode = "adaptive"
    /\ active_sessions[modeResp'.given_id].context = <<>>
    /\ modeResp'.override = "none"
    /\ modeResp'.text = MsgBuildWebsite
    /\ modeResp'.fallback

\* C10 as stated: the fallback recommends "agent" with confidence at least 0.6
\* and the session's stored mode switches to AGENT.
C10_AdaptiveSwitchesToAgent ==
    [][AdaptiveBuildWebsite =>
        /\ modeResp'.recommended_mode = "agent"
        /\ modeResp'.confidence >= 6
        /\ active_sessions'[modeResp'.session_id].mode = "agent"]_vars

\* C10 amended: the fallback recommends "agent" with confidence 0.7 (two agent
\* keywords, no chat keyword), which is not above the threshold 0.7, so the
\* stored mode stays ADAPTIVE and the message is answered in chat mode with
\* clarification_needed set.
C10_AdaptiveStaysAdaptive ==
    [][AdaptiveBuildWebsite =>
        /\ modeResp'.recommended_mode = "agent"
        /\ modeResp'.confidence = 7
        /\ modeResp'.confidence >= 6
        /\ ~modeResp'.mode_switched
        /\ modeResp'.clarification_needed
        /\ modeResp'.mode = "chat"
        /\ modeResp'.session_id = modeResp'.given_id
        /\ active_sessions'[modeResp'.session_id].mode = "adaptive"]_vars

\* C10 witness: the first message of an ADAPTIVE session was "build me a
\* website", the fallback recommended "agent" with confidence 0.7 and the
\* session is still ADAPTIVE.
C10_Witness ==
    /\ modeResp.op = "process_message"
    /\ modeResp.text = MsgBuildWebsite
    /\ modeResp.fallback
    /\ modeResp.override = "none"
    /\ modeResp.given_id = modeResp.session_id
    /\ modeResp.recommended_mode = "agent"
    /\ modeResp.confidence = 7
    /\ modeResp.clarification_needed
    /\ modeResp.session_id \in DOMAIN active_sessions
    /\ active_sessions[modeResp.session_id].mode = "adaptive"
    /\ active_sessions[modeResp.session_id].message_count = 1
    /\ Len(active_sessions[modeResp.session_id].context) = 2

\* a process_message step that is handled in ADAPTIVE mode (by the mode
\* argument, or without one by the stored mode or by a session created for an
\* unknown id) and for which the analysis has the fields _process_adaptive_mode
\* reads
AdaptiveStep ==
    /\ modeResp'.op = "process_message"
    /\ \/ modeResp'.override = "adaptive"
       \/ /\ modeResp'.override = "none"
          /\ modeResp'.given_id \in DOMAIN active_sessions
                => active_sessions[modeResp'.given_id].mode = "adaptive"
    /\ modeResp'.complete

C12_AtMostOneExecutor ==
    \A t1, t2 \in Threads :
        /\ t1 # t2
        /\ exec[t1].pc # "idle"
        /\ exec[t2].pc # "idle"
        => exec[t1].task_id # exec[t2].task_id

\* a step in which the execute_task call of thread returns
Returns(thread) ==
    /\ exec[thread].pc # "idle"
    /\ exec'[thread].pc = "idle"

\* C13: an execute_task call returns a dict and never raises; when its executor
\* failed the task is in status ERROR, the error text is stored under the
\* results key "error", and every results key the task had before (those of
\* creation, "analysis" and "user_input", included) is still there with its
\* value; no step ever removes a results key.
C13_ExecutorFailure ==
    [][\A thread \in Threads :
        LET id == exec[thread].task_id
            before == active_tasks[id].results
            after == active_tasks'[id].results
        IN  /\ exec[thread].pc # "idle" => DOMAIN before \subseteq DOMAIN after
            /\ Returns(thread) =>
                /\ taskResp'.op = "execute"
                /\ taskResp'.thread = thread
                /\ taskResp'.task_id = id
                /\ taskResp'.result \in {"success", "error"}
                /\ taskResp'.result = "success"
                      <=> active_tasks'[id].status = "completed"
                /\ taskResp'.result = "error" =>
                      /\ active_tasks'[id].status = "error"
                      /\ "error" \in DOMAIN after
                      /\ after["error"] = "error"
                      /\ {"analysis", "user_input"} \subseteq DOMAIN after
                      /\ \A k \in DOMAIN before \ {"error"} : after[k] = before[k]
                      /\ active_tasks'[id].progress = active_tasks[id].progress]_vars

\* C13 witness: the website executor failed while reading the completion it got;
\* the task is in ERROR with progress 50 and holds the keys of creation and
\* "error".
C13_Witness ==
    /\ taskResp.op = "execute"
    /\ taskResp.result = "error"
    /\ taskResp.task_id \in DOMAIN active_tasks
    /\ LET task == active_tasks[taskResp.task_id]
       IN  /\ task.type = "website_creation"
           /\ task.status = "error"
           /\ task.progress = 50
           /\ DOMAIN task.results = {"analysis", "user_input", "error"}

\* C14: create_task never raises; it registers a task and returns its id, and
\* when the classifier failed (its call raised, or its answer has an unknown
\* task type or lacks fields) the task is GENERAL_CHAT with a plan of one step.
C14_CreateNeverRaises ==
    [][taskResp'.op = "create" =>
        /\ taskResp'.result = "ok"
        /\ taskResp'.task_id \in DOMAIN active_tasks'
        /\ taskResp'.classifier \in {"raises", "unusable"} =>
              /\ active_tasks'[taskResp'.task_id].type = "general_chat"
              /\ Len(active_tasks'[taskResp'.task_id].steps) = 1]_vars

\* C19: when the executor of an execute_task call failed, the route answers
\* with HTTP status 200.
C19_FailureAnswered200 ==
    taskResp.op = "execute" /\ taskResp.result = "error" => taskResp.http = 200

(***************************************************************************)
(* Further properties of the chat mode manager (SpecMode).                 *)
(***************************************************************************)
\* C15: cleanup_session on a registered session removes it, releases its
\* workspace (when it has one) and no other, and returns true; on an id that is
\* not registered it returns false and changes neither the sessions nor the
\* workspaces; an id that was removed is never registered again, so every later
\* call on it is of the second kind.
C15_CleanupIdempotent ==
    [][/\ \A id \in 1..MaxSessions :
            id < next_session /\ id \notin DOMAIN active_sessions
                => id \notin DOMAIN active_sessions'
       /\ modeResp'.op = "cleanup_session" =>
            LET id == modeResp'.given_id
            IN  IF id \in DOMAIN active_sessions
                THEN /\ modeResp'.result = "true"
                     /\ active_sessions' = Del(active_sessions, id)
                     /\ active_sessions[id].workspace_id \notin codeact_sessions'
                     /\ codeact_sessions' \subseteq codeact_sessions
                     /\ codeact_sessions \ codeact_sessions'
                            \subseteq {active_sessions[id].workspace_id}
                ELSE /\ modeResp'.result = "false"
                     /\ UNCHANGED <<active_sessions, codeact_sessions>>]_vars

\* C15 witness: a session that got a workspace was cleaned up, its workspace is
\* released, and a second cleanup_session on its id has returned false.
C15_Witness ==
    /\ modeResp.op = "cleanup_session"
    /\ modeResp.result = "false"
    /\ modeResp.given_id >= 1
    /\ modeResp.given_id < next_session
    /\ next_workspace > 1
    /\ codeact_sessions = {}

\* C16: every process_message call returns a response; none raises.
C16_NeverPropagates ==
    modeResp.op = "process_message" => modeResp.result = "ok"

(***************************************************************************)
(* Further properties of send_message and of the rate limiter (SpecBurst). *)
(***************************************************************************)
\* a step that is a send_message call
SendStep ==
    /\ clock' = clock
    /\ chatResp'.op = "send"

\* a send_message call that gets as far as _check_rate_limit
RateLimiterCall ==
    /\ SendStep
    /\ chatResp'.user \in DOMAIN users
    /\ chatResp'.channel \in ChannelIds
    /\ can_user_send_message(users[chatResp'.user], channels[chatResp'.channel])

\* C17: a send that fails ("User not found", "Channel not found", "Permission
\* denied" or "Rate limit exceeded") leaves every channel's stored messages,
\* every channel's message counter and every user's message counter unchanged;
\* a send that succeeds appends exactly one message, the one whose id it
\* returns, to its channel (dropping the oldest when the channel is full) and
\* adds exactly one to the channel's and to the sender's counter and touches no
\* other channel or user; a send refused as not found or not permitted leaves
\* the sender's rate window unchanged.
C17_SendEffects ==
    [][SendStep =>
        LET user_id == chatResp'.user
            channel_id == chatResp'.channel
            result == chatResp'.result
            old == messages[channel_id]
            new == messages'[channel_id]
        IN  /\ result \in {"sent", "User not found", "Channel not found",
                           "Permission denied", "Rate limit exceeded"}
            /\ result # "sent" =>
                  UNCHANGED <<messages, channel_message_count, users>>
            /\ result \in {"User not found", "Channel not found", "Permission denied"}
                  => UNCHANGED user_message_history
            /\ result = "sent" =>
                  /\ user_id \in DOMAIN users
                  /\ channel_id \in ChannelIds
                  /\ Len(new) = Min(max_messages_per_channel, Len(old) + 1)
                  /\ new[Len(new)].message_id = chatResp'.message_id
                  /\ new[Len(new)].user_id = user_id
                  /\ \A m \in 1..Len(old) : old[m].message_id # chatResp'.message_id
                  /\ \A i \in 1..(Len(new) - 1) :
                        new[i] = old[Len(old) - (Len(new) - 1) + i]
                  /\ \A c \in ChannelIds \ {channel_id} :
                        /\ messages'[c] = messages[c]
                        /\ channel_message_count'[c] = channel_message_count[c]
                  /\ channel_message_count'[channel_id]
                        = channel_message_count[channel_id] + 1
                  /\ users'[user_id].message_count = users[user_id].message_count + 1
                  /\ \A u \in DOMAIN users \ {user_id} : users'[u] = users[u]
                  /\ DOMAIN users' = DOMAIN users]_vars

\* C17 witness: after sends that succeeded "u1" was refused for the message
\* count, and the user's counter shows the successful sends only.
C17_Witness ==
    /\ chatResp.op = "send"
    /\ chatResp.result = "Rate limit exceeded"
    /\ "u1" \in limited
    /\ next_id > 1
    /\ users["u1"].message_count
          = rate_limits[users["u1"].role].messages_per_minute - BurstLeft
            + (next_id - 1)

\* C20: a send refused by the rate limiter, for the message count or for the
\* size, leaves the stored timestamp window of the sender identical.
C20_RejectionNoSideEffect ==
    [][RateLimiterCall /\ chatResp'.result = "Rate limit exceeded"
          => UNCHANGED user_message_history]_vars

(***************************************************************************)
(* Properties of connections (SpecConn).                                   *)
(***************************************************************************)
\* a step that is a disconnect_user call on a handle that is connected
DisconnectStep ==
    /\ chatResp'.op = "disconnect"
    /\ chatResp'.handle \in DOMAIN user_connections

\* C18: disconnect_user on a connected handle removes the handle from every
\* channel's membership set and from the handle map, and marks the owning user
\* offline only when the user has no other connected handle: a user who is
\* connected over another handle as well keeps the status "online".
C18_DisconnectLastOnly ==
    [][DisconnectStep =>
        LET h == chatResp'.handle
            user_id == user_connections[h]
            others == {g \in DOMAIN user_connections \ {h} :
                          user_connections[g] = user_id}
        IN  /\ chatResp'.result = "disconnected"
            /\ h \notin DOMAIN user_connections'
            /\ \A c \in ChannelIds : h \notin active_connections'[c]
            /\ others = {} => users'[user_id].status = "offline"
            /\ others # {} => users'[user_id].status = users[user_id].status]_vars

(***************************************************************************)
(* Overlapping sends of one user (SpecRace).                               *)
(***************************************************************************)
\* C21: whatever the interleaving of the calls of one user, the timestamps
\* less than 60 units old in the user's stored window are never more than
\* messages_per_minute of the user's role, and they are exactly the timestamps
\* of the accepted sends less than 60 units old: none is lost.
C21_AtomicWindow ==
    \A user_id \in DOMAIN users :
        LET live == PruneHistory(user_message_history[user_id], clock)
        IN  /\ Len(live) <= rate_limits[users[user_id].role].messages_per_minute
            /\ live = PruneHistory(accepted[user_id], clock)

(***************************************************************************)
(* Bounds of a task's counters (SpecTask).                                 *)
(***************************************************************************)
\* C22: every task has 0 <= current_step <= len(steps) and 0 <= progress <= 100,
\* whatever step plan the classifier returned and whatever the task's type.
C22_TaskBounds ==
    \A task_id \in DOMAIN active_tasks :
        LET task == active_tasks[task_id]
        IN  /\ 0 <= task.current_step
            /\ task.current_step <= Len(task.steps)
            /\ 0 <= task.progress
            /\ task.progress <= 100

(***************************************************************************)
(* The execution loop of agent mode (SpecMode).                            *)
(***************************************************************************)
\* C23: the loop of execute_task_autonomously runs between 1 and max_iterations
\* iterations and stops at the first one whose execution succeeds; the error
\* is appended to the task description after every failed iteration that is
\* followed by another one, and after no other; final_success is the success
\* of the last iteration run.
C23_ExecutionLoop ==
    modeResp.execution.ran =>
        LET run == modeResp.execution
            n == run.iterations
        IN  /\ n \in 1..max_iterations
            /\ \A i \in 1..(n - 1) : run.outcomes[i] # "success"
            /\ n < max_iterations => run.outcomes[n] = "success"
            /\ run.appended = {i \in 1..(n - 1) : run.outcomes[i] # "success"}
            /\ run.final_success = (run.outcomes[n] = "success")

(***************************************************************************)
(* The rate limit across registrations (SpecRereg).                        *)
(***************************************************************************)
\* C24: for a user whose role does not change, the sends accepted within any
\* window of 60 time units (the window ending at any accepted send) are never
\* more than messages_per_minute of the role, whatever register, connect,
\* disconnect, join and send calls are made.
C24_WindowAcrossRegister ==
    \A user_id \in DOMAIN users :
        \A i \in 1..Len(accepted[user_id]) :
            Cardinality({j \in 1..i :
                    accepted[user_id][i] - accepted[user_id][j] < RateWindow})
                <= rate_limits[users[user_id].role].messages_per_minute

(***************************************************************************)
(* Invariants of connections (SpecConn).                                   *)
(***************************************************************************)
\* C25: a registered user's status is "online" exactly when some connection
\* handle is mapped to the user, so the online-users snapshot lists the users
\* with a handle and no others.
C25_OnlineIffConnected ==
    \A user_id \in DOMAIN users :
        users[user_id].status = "online"
            <=> \E h \in DOMAIN user_connections : user_connections[h] = user_id

\* C26: every handle in a channel's membership set is a connected handle: it is
\* in the handle map.
C26_MembersConnected ==
    \A c \in ChannelIds : active_connections[c] \subseteq DOMAIN user_connections

(***************************************************************************)
(* Sessions and their logs (SpecMode).                                     *)
(***************************************************************************)
\* C27: the context of every session holds two entries per processed message,
\* a user entry followed by an assistant entry: len(context) = 2 * message_count.
C27_ContextPairs ==
    \A id \in DOMAIN active_sessions :
        LET session == active_sessions[id]
        IN  /\ Len(session.context) = 2 * session.message_count
            /\ \A i \in 1..Len(session.context) :
                  session.context[i].role
                      = IF i % 2 = 1 THEN "user" ELSE "assistant"

\* a step that is a process_message call
ProcessStep ==
    /\ modeResp'.op = "process_message"
    /\ LET id == modeResp'.session_id
       IN  /\ id \in DOMAIN active_sessions'
           /\ \/ id \notin DOMAIN active_sessions
              \/ active_sessions'[id].message_count
                    = active_sessions[id].message_count + 1

\* C28: process_message with a session id that is not registered opens a new
\* session under an id never used before, which is not the id given; the
\* message is processed in it in the mode given, or in ADAPTIVE mode when none
\* is given; a returned response carries the new id; the id given stays
\* unregistered, and every other session is as before.
C28_UnknownIdNewSession ==
    [][ProcessStep /\ modeResp'.given_id \notin DOMAIN active_sessions =>
        LET new == modeResp'.session_id
            session == active_sessions'[new]
        IN  /\ new # modeResp'.given_id
            /\ new \notin DOMAIN active_sessions
            /\ new = next_session
            /\ next_session' = next_session + 1
            /\ DOMAIN active_sessions' = DOMAIN active_sessions \cup {new}
            /\ modeResp'.given_id \notin DOMAIN active_sessions'
            /\ \A id \in DOMAIN active_sessions :
                  active_sessions'[id] = active_sessions[id]
            /\ session.message_count = 1
            /\ session.context[1]
                  = [role |-> "user",
                     mode |-> IF modeResp'.override = "none" THEN "adaptive"
                              ELSE modeResp'.override]
            /\ modeResp'.override \in ChatMode \ {"adaptive"}
                  => session.mode = modeResp'.override]_vars

\* C28 witness: process_message(no known id, mode AGENT) has returned a response
\* carrying the new session's id, and the session is in AGENT mode.
C28_Witness ==
    /\ modeResp.op = "process_message"
    /\ modeResp.result = "ok"
    /\ modeResp.override = "agent"
    /\ modeResp.given_id \notin DOMAIN active_sessions
    /\ modeResp.session_id \in DOMAIN active_sessions
    /\ modeResp.session_id # modeResp.given_id
    /\ active_sessions[modeResp.session_id].mode = "agent"
    /\ active_sessions[modeResp.session_id].message_count = 1

\* C29: a process_message call handled in AGENT mode adds exactly one task to
\* the manager's task registry and exactly one task_history entry, which names
\* that task; and every task id in a session's task_history names a registry
\* task in status PLANNING with progress 0.
C29_AgentTaskPerMessage ==
    [][/\ ProcessStep /\ modeResp'.mode = "agent" =>
            LET id == modeResp'.session_id
                before == IF id \in DOMAIN active_sessions
                          THEN active_sessions[id].task_history ELSE <<>>
                after == active_sessions'[id].task_history
            IN  /\ DOMAIN mode_tasks' = DOMAIN mode_tasks \cup {next_mode_task}
                /\ next_mode_task \notin DOMAIN mode_tasks
                /\ Len(after) = Len(before) + 1
                /\ SubSeq(after, 1, Len(before)) = before
                /\ after[Len(after)].task_id = next_mode_task
       /\ \A id \in DOMAIN active_sessions' :
            \A i \in 1..Len(active_sessions'[id].task_history) :
                LET task_id == active_sessions'[id].task_history[i].task_id
                IN  /\ task_id \in DOMAIN mode_tasks'
                    /\ mode_tasks'[task_id].status = "planning"
                    /\ mode_tasks'[task_id].progress = 0]_vars

(***************************************************************************)
(* Referral records and tiers (SpecRef).                                   *)
(***************************************************************************)
\* the tier successful_referrals stands for: <10 bronze, 10-24 silver, 25-49
\* gold, 50-99 platinum, >=100 diamond
TierOfCount(count) ==
    CASE count < 10  -> "bronze"
      [] count \in 10..24 -> "silver"
      [] count \in 25..49 -> "gold"
      [] count \in 50..99 -> "platinum"
      [] OTHER -> "diamond"

\* C30: the record a process_referral_signup call appends has credits_awarded
\* = int(500 * bonus multiplier of the tier in its tier_at_time), and after
\* every call each profile's tier is the one its successful_referrals stands
\* for.
C30_RewardMatchesRecordedTier ==
    [][refResp'.op = "signup" /\ refResp'.result = "ok" /\ ref_calls' # ref_calls =>
        LET referrer_id == referral_codes[refResp'.referral_code]
            records == referral_history'[referrer_id]
            record == records[Len(records)]
        IN  /\ record.referred_user_id = refResp'.user_id
            /\ record.credits_awarded
                  = (500 * bonus_multiplier[record.tier_at_time]) \div 100
            /\ \A u \in DOMAIN ref_users' :
                  ref_users'[u].tier = TierOfCount(ref_users'[u].successful_referrals)]_vars

====
